---- MODULE Spec2Model ----
(***************************************************************************)
(* Verification model of the pi_vss library: the batched Pi_LA protocol    *)
(* (b_pi_la: Dealer, Party) and the shared core in common (polynomial      *)
(* algebra, transcript, secret sharing, Lagrange reconstruction).          *)
(*                                                                         *)
(* Scalars are elements of Z_Q for a small prime Q standing for the        *)
(* Ristretto group order.  The BLAKE3 XOF is a symbolic, collision-free    *)
(* hash: a digest is the record of what was absorbed.  Rust vectors are    *)
(* TLA+ sequences; 0-based positions of the code are kept as values        *)
(* (validated_shares holds 0-based indices) and shifted by one only when a *)
(* sequence is subscripted.                                                *)
(***************************************************************************)
EXTENDS Integers, Sequences, FiniteSets, TLC

\* ---------------------------------------------------------------- bounds
MaxN == 4
MaxK == 2
MaxSeed == 2

\* ------------------------------------------------------- scalar field Z_Q
Q == 7

Scalars == 0..(Q - 1)

ScalarFrom(i) == i % Q

Add(a, b) == (a + b) % Q

Sub(a, b) == (a + Q - b) % Q

Mul(a, b) == (a * b) % Q

RECURSIVE Pow(_, _)
Pow(a, e) == IF e = 0 THEN 1 ELSE Mul(a, Pow(a, e - 1))

\* Scalar::invert: a^(Q-2); the inverse of zero is zero
Invert(a) == Pow(a, Q - 2)

\* ------------------------------------------------------------- sequences
Min(a, b) == IF a < b THEN a ELSE b

Max(a, b) == IF a > b THEN a ELSE b

RECURSIVE SumSeq(_)
SumSeq(s) == IF s = <<>> THEN 0 ELSE Add(Head(s), SumSeq(Tail(s)))

RECURSIVE ProdSeq(_)
ProdSeq(s) == IF s = <<>> THEN 1 ELSE Mul(Head(s), ProdSeq(Tail(s)))

\* iter().zip().map(|(a, b)| a * b).sum(): zip stops at the shorter side
ZipMulSum(a, b) == SumSeq([i \in 1..Min(Len(a), Len(b)) |-> Mul(a[i], b[i])])

\* ----------------------------------------------------------- result values
NoErr == [kind |-> "none", a |-> 0, b |-> 0, c |-> 0]

OkUnit == [tag |-> "Ok", b |-> TRUE, err |-> NoErr]

OkBool(v) == [tag |-> "Ok", b |-> v, err |-> NoErr]

Err(kind, x, y, z) == [tag |-> "Err", b |-> FALSE, err |-> [kind |-> kind, a |-> x, b |-> y, c |-> z]]

Panic == [tag |-> "Panic", b |-> FALSE, err |-> NoErr]

NoRet == [tag |-> "None", b |-> FALSE, err |-> NoErr]

IsOk(r) == r.tag = "Ok"

IsOkTrue(r) == r.tag = "Ok" /\ r.b

IsOkFalse(r) == r.tag = "Ok" /\ ~r.b

IsErr(r, kind) == r.tag = "Err" /\ r.err.kind = kind

\* ------------------------------------------------------------ polynomials
\* vec![ONE, x]; for i in 2..len { push(x_powers[1] * x_powers[i - 1]) }
RECURSIVE XPowers(_, _)
XPowers(x, len) ==
    IF len <= 2 THEN <<1, ScalarFrom(x)>>
    ELSE LET prev == XPowers(x, len - 1)
         IN  Append(prev, Mul(prev[2], prev[len - 1]))

\* Polynomial::evaluate
evaluate(coefficients, x) == ZipMulSum(coefficients, XPowers(x, Len(coefficients)))

\* Polynomial::evaluate_range
evaluate_range(coefficients, from, to) ==
    [i \in 1..(to - from + 1) |-> evaluate(coefficients, from + i - 1)]

\* Polynomial::evaluate_many_range: one row per index, one column per polynomial
evaluate_many_range(polynomials, from, to) ==
    [i \in 1..(to - from + 1) |->
        LET x_powers == XPowers(from + i - 1, Len(polynomials[1]))
        IN  [j \in 1..Len(polynomials) |-> ZipMulSum(polynomials[j], x_powers)]]

\* precompute::gen_powers: for i in 1..=n the row [1, i] extended by
\* for j in 2..t { push(x_powers[1] * x_powers[j - 1]) }
gen_powers(nn, tt) == [i \in 1..nn |-> XPowers(i, tt)]

\* &x_powers[i] (0-based i): out of bounds when i >= x_powers.len()
RowInBounds(x_powers, i) == i < Len(x_powers)

\* Polynomial::evaluate_many_range_precomp: row i of the table is used for x = i
evaluate_many_range_precomp(x_powers, polynomials, from, to) ==
    IF \E i \in from..to : ~RowInBounds(x_powers, i)
    THEN [ret |-> Panic, evals |-> <<>>]
    ELSE [ret |-> OkUnit,
          evals |-> [m \in 1..(to - from + 1) |->
                        [j \in 1..Len(polynomials) |->
                            ZipMulSum(polynomials[j], x_powers[from + m - 1 + 1])]]]

\* Polynomial::evaluate_range_precomp: row i of the table is used for x = i
evaluate_range_precomp(coefficients, x_powers, from, to) ==
    IF \E i \in from..to : ~RowInBounds(x_powers, i)
    THEN [ret |-> Panic, evals |-> <<>>]
    ELSE [ret |-> OkUnit,
          evals |-> [m \in 1..(to - from + 1) |->
                        ZipMulSum(coefficients, x_powers[from + m - 1 + 1])]]

\* ------------------------------------------------------------------- rng
\* The caller's PRNG: a state advanced by every draw.  One step yields the
\* 64 bytes of a draw, taken here as the number RngNext gives.
RngNext(s) == (s * 13 + 7) % 64

\* Scalar::from_bytes_mod_order_wide: wide reduction modulo the group order
from_bytes_mod_order_wide(bytes) == bytes % Q

\* random::random_scalar: 64 bytes of the rng, reduced; bytes is the local
\* buffer as bytes.zeroize() leaves it
random_scalar(rng) ==
    [val |-> from_bytes_mod_order_wide(RngNext(rng)), rng |-> RngNext(rng), bytes |-> 0]

\* random::random_scalars
RECURSIVE random_scalars(_, _)
random_scalars(rng, cnt) ==
    IF cnt = 0 THEN [vals |-> <<>>, rng |-> rng]
    ELSE LET first == random_scalar(rng)
             rest == random_scalars(first.rng, cnt - 1)
         IN  [vals |-> <<first.val>> \o rest.vals, rng |-> rest.rng]

\* Polynomial::sample: degree + 1 scalars from the rng
sample(degree, rng) ==
    LET draws == random_scalars(rng, degree + 1)
    IN  [coefficients |-> draws.vals, rng |-> draws.rng]

\* Polynomial::sample_set_f0: degree + 1 draws, then coefficient 0 is overwritten
sample_set_f0(degree, rng, f0) ==
    LET draws == random_scalars(rng, degree + 1)
    IN  [coefficients |-> [i \in 1..(degree + 1) |-> IF i = 1 THEN f0 ELSE draws.vals[i]],
         rng |-> draws.rng]

\* Polynomial::sample_n_set_f0: the j-th polynomial takes the j-th run of draws
RECURSIVE sample_polys(_, _, _)
sample_polys(degree, rng, f0_vals) ==
    IF f0_vals = <<>> THEN [polys |-> <<>>, rng |-> rng]
    ELSE LET first == sample_set_f0(degree, rng, Head(f0_vals))
             rest == sample_polys(degree, first.rng, Tail(f0_vals))
         IN  [polys |-> <<first.coefficients>> \o rest.polys, rng |-> rest.rng]

sample_n_set_f0(cnt, degree, f0_vals, rng) ==
    IF Len(f0_vals) = cnt
    THEN LET sampled == sample_polys(degree, rng, f0_vals)
         IN  [ret |-> OkUnit, polys |-> sampled.polys, rng |-> sampled.rng]
    ELSE [ret |-> Err("CountMismatch", cnt, Len(f0_vals), 0), polys |-> <<>>, rng |-> rng]

\* compute_z that adds the polynomials without their weights d_k
compute_z_unweighted(self, f_polynomials, d_vals) ==
    [i \in 1..Len(self) |->
        Add(self[i],
            SumSeq([j \in 1..Min(Len(f_polynomials), Len(d_vals)) |-> f_polynomials[j][i]]))]

\* compute_z leaving r as it is: the weighted polynomials are not added
compute_z_only_r(self, f_polynomials, d_vals) == self

\* Polynomial::compute_z: r_coef[i] += sum_k f_k[i] * d_k
compute_z(self, f_polynomials, d_vals) ==
    [i \in 1..Len(self) |->
        Add(self[i],
            SumSeq([j \in 1..Min(Len(f_polynomials), Len(d_vals)) |->
                        Mul(f_polynomials[j][i], d_vals[j])]))]

\* compute_r_eval that subtracts the evaluations without their weights d_k
compute_r_eval_unweighted(z_eval, f_evals, d_vals) ==
    Sub(z_eval, SumSeq([j \in 1..Min(Len(f_evals), Len(d_vals)) |-> f_evals[j]]))

\* compute_r_eval adding the weighted shares instead of subtracting them
compute_r_eval_add(z_eval, f_evals, d_vals) == Add(z_eval, ZipMulSum(f_evals, d_vals))

\* Polynomial::compute_r_eval: z_eval - sum_k f_k * d_k
compute_r_eval(z_eval, f_evals, d_vals) == Sub(z_eval, ZipMulSum(f_evals, d_vals))

\* secret_sharing::generate_shares_batched
generate_shares_batched_evals(sampled, evaluated) ==
    IF ~IsOk(sampled.ret) \/ ~IsOk(evaluated.ret)
    THEN [ret |-> Panic, f_polynomials |-> <<>>, f_evals |-> <<>>, rng |-> sampled.rng]
    ELSE [ret |-> OkUnit, f_polynomials |-> sampled.polys, f_evals |-> evaluated.evals,
          rng |-> sampled.rng]

generate_shares_batched_sampled(nn, x_pows_, sampled) ==
    generate_shares_batched_evals(sampled,
        evaluate_many_range_precomp(x_pows_, sampled.polys, 1, nn))

generate_shares_batched(nn, tt, x_pows_, secrets_, rng_) ==
    generate_shares_batched_sampled(nn, x_pows_,
        sample_n_set_f0(Len(secrets_), tt, secrets_, rng_))

\* ------------------------------------------------------ hash and transcript
\* [0u8; 64]
ZeroBuf == [zero |-> TRUE, pre |-> <<>>, flip |-> 0]

\* Hasher::finalize_xof().fill(buf) over the scalars absorbed: the 64 bytes are
\* determined by, and determine, what was absorbed (no collisions)
Xof(absorbed) == [zero |-> FALSE, pre |-> absorbed, flip |-> 0]

\* The number a 64-byte string stands for, as far as the wide reduction sees it
Mix(acc, x) == (acc * 31 + x + 1) % 1009

RECURSIVE FoldMix(_, _)
FoldMix(acc, s) == IF s = <<>> THEN acc ELSE FoldMix(Mix(acc, Head(s)), Tail(s))

DigestBytes(dg) == IF dg.zero THEN 0 ELSE FoldMix(dg.flip + 1, dg.pre)

\* finalize_xof of a hasher that absorbed 64-byte commitments
XofOfCommitments(absorbed) == FoldMix(0, [i \in 1..Len(absorbed) |-> DigestBytes(absorbed[i])])

\* compute_d_from_hash_commitments without buf.zeroize()
compute_d_from_hash_commitments_no_zeroize(hasher, buf, commitments) ==
    LET absorbed == hasher \o commitments
    IN  [d |-> from_bytes_mod_order_wide(XofOfCommitments(absorbed)),
         hasher |-> <<>>,
         buf |-> Xof(absorbed)]

\* compute_d_from_hash_commitments without hasher.reset()
compute_d_from_hash_commitments_no_reset(hasher, buf, commitments) ==
    LET absorbed == hasher \o commitments
    IN  [d |-> from_bytes_mod_order_wide(XofOfCommitments(absorbed)),
         hasher |-> absorbed,
         buf |-> ZeroBuf]

\* utils::compute_d_from_hash_commitments: absorb every commitment into the
\* shared hasher, squeeze, reset the hasher, reduce, zeroize the buffer
compute_d_from_hash_commitments(hasher, buf, commitments) ==
    LET absorbed == hasher \o commitments
    IN  [d |-> from_bytes_mod_order_wide(XofOfCommitments(absorbed)),
         hasher |-> <<>>,
         buf |-> ZeroBuf]

\* compute_d_powers pushing d_vals[i - 1] * d_vals[i - 1]
RECURSIVE compute_d_powers_squaring(_, _)
compute_d_powers_squaring(k, d) ==
    IF k <= 1 THEN <<d>>
    ELSE LET prev == compute_d_powers_squaring(k - 1, d)
         IN  Append(prev, Mul(prev[k - 1], prev[k - 1]))

\* utils::compute_d_powers: push d, then for i in 1..k push d_vals[i - 1] * d
RECURSIVE compute_d_powers(_, _)
compute_d_powers(k, d) ==
    IF k <= 1 THEN <<d>>
    ELSE LET prev == compute_d_powers(k - 1, d)
         IN  Append(prev, Mul(prev[k - 1], d))

\* utils::compute_d_powers_from_hash_commitments
compute_d_powers_from_hash_commitments(hasher, buf, commitments, k) ==
    LET derived == compute_d_from_hash_commitments(hasher, buf, commitments)
    IN  [d_vals |-> compute_d_powers(k, derived.d),
         hasher |-> derived.hasher,
         buf |-> derived.buf]

\* hash_share that leaves r(index) out of the digest
hash_share_without_r(fi, ri) == Xof(fi)

\* The per-party commitment of B_Pi_LA: a local hasher absorbs the share's
\* scalars, then r(i), and the XOF output is the commitment
hash_share(fi, ri) == Xof(fi \o <<ri>>)

\* ------------------------------------------------------------------ Dealer
\* Dealer::new: the number of public keys must be n (every key decompresses)
dealer_new(nn, tt, n_public_keys) ==
    IF n_public_keys # nn
    THEN [ret |-> Err("CountMismatch", nn, n_public_keys, 0), self |-> [t |-> 0, public_keys |-> 0]]
    ELSE [ret |-> OkUnit, self |-> [t |-> tt, public_keys |-> n_public_keys]]

\* Dealer::generate_shares: the polynomials sampled, evaluated at 1..=n
generate_shares_evals(sampled, n_public_keys) ==
    IF ~IsOk(sampled.ret)
    THEN [ret |-> Panic, f_polynomials |-> <<>>, f_evals |-> <<>>, rng |-> sampled.rng]
    ELSE [ret |-> OkUnit,
          f_polynomials |-> sampled.polys,
          f_evals |-> evaluate_many_range(sampled.polys, 1, n_public_keys),
          rng |-> sampled.rng]

generate_shares(self, k, secrets, rng) ==
    generate_shares_evals(sample_n_set_f0(k, self.t, secrets, rng), self.public_keys)

\* Dealer::generate_proof, last step: z = r + sum_j d^j f_j
generate_proof_z(r, c_buf, derived, f_polynomials) ==
    [z |-> compute_z(r.coefficients, f_polynomials, derived.d_vals),
     r |-> r.coefficients,
     c_buf |-> c_buf,
     rng |-> r.rng,
     hasher |-> derived.hasher,
     buf |-> derived.buf]

\* Dealer::generate_proof, the commitments: c_buf[i] = H(f_evals[i] || r(i+1))
\* for the zipped triples
generate_proof_commitments(c_buf, f_evals, r_evals) ==
    [i \in 1..Len(c_buf) |->
        IF i <= Min(Len(f_evals), Len(r_evals))
        THEN hash_share(f_evals[i], r_evals[i])
        ELSE c_buf[i]]

\* Dealer::generate_proof, the challenge: d powers from the commitments
generate_proof_d(r, c_buf, hasher, buf, k, f_polynomials) ==
    generate_proof_z(r, c_buf,
                     compute_d_powers_from_hash_commitments(hasher, buf, c_buf, k),
                     f_polynomials)

\* Dealer::generate_proof, after r is sampled
generate_proof_r(self, r, hasher, buf, c_buf, k, f_polynomials, f_evals) ==
    generate_proof_d(r,
                     generate_proof_commitments(c_buf, f_evals,
                         evaluate_range(r.coefficients, 1, self.public_keys)),
                     hasher, buf, k, f_polynomials)

\* Dealer::generate_proof
generate_proof(self, rng, hasher, buf, c_buf, k, f_polynomials, f_evals) ==
    generate_proof_r(self, sample(self.t, rng), hasher, buf, c_buf, k, f_polynomials, f_evals)

\* Dealer::deal_secrets_v2: (f_evals, (c_buf, z))
deal_result(gen, proof) ==
    [shares |-> gen.f_evals,
     cvals |-> proof.c_buf,
     z |-> proof.z,
     f_polynomials |-> gen.f_polynomials,
     r |-> proof.r,
     rng |-> proof.rng,
     hasher |-> proof.hasher,
     buf |-> proof.buf]

\* Dealer::deal_secrets_v2 after generate_shares: c_buf = vec![[0u8; 64]; n]
deal_proof(self, hasher, buf, k, gen) ==
    deal_result(gen,
                generate_proof(self, gen.rng, hasher, buf,
                               [i \in 1..self.public_keys |-> ZeroBuf], k,
                               gen.f_polynomials, gen.f_evals))

\* Dealer::deal_secrets_v2
deal_secrets_v2(self, rng, hasher, buf, secrets) ==
    deal_proof(self, hasher, buf, Len(secrets),
               generate_shares(self, Len(secrets), secrets, rng))

\* ------------------------------------------------------------------- Party
NoProof == [some |-> FALSE, cvals |-> <<>>, z |-> <<>>]

SomeProof(cvals, z) == [some |-> TRUE, cvals |-> cvals, z |-> z]

NoneSeq == [some |-> FALSE, v |-> <<>>]

SomeSeq(v) == [some |-> TRUE, v |-> v]

NoParty ==
    [index |-> 0, n |-> 0, t |-> 0, public_keys |-> NoneSeq, dealer_proof |-> NoProof,
     validated_shares |-> <<>>, share |-> NoneSeq, shares |-> NoneSeq,
     qualified_set |-> NoneSeq]

\* The guard of Party::new.  && short-circuits, so n - 1 is evaluated only
\* when t < n, that is with n >= 1; (n - 1) as f32 / 2.0 floored is (n-1) div 2
party_new_guard(nn, tt, index) ==
    index <= nn /\ tt < nn /\ tt = (nn - 1) \div 2

\* Party::new
party_new(nn, tt, index) ==
    IF party_new_guard(nn, tt, index)
    THEN [ret |-> OkUnit,
          self |-> [index |-> index, n |-> nn, t |-> tt, public_keys |-> NoneSeq,
                    dealer_proof |-> NoProof, validated_shares |-> <<>>, share |-> NoneSeq,
                    shares |-> NoneSeq, qualified_set |-> NoneSeq]]
    ELSE [ret |-> Err("InvalidParameterSet", nn, tt, index), self |-> NoParty]

\* party::generate_parties: Party::new(..).unwrap() for every i in 1..=n
generate_parties(nn, tt) ==
    IF \A i \in 1..nn : IsOk(party_new(nn, tt, i).ret) THEN OkUnit ELSE Panic

\* A compressed public key: the party it belongs to, and whether the 32 bytes
\* decompress to a point.  The decompressed key is the party's number.
CompressedKey(id, valid) == [id |-> id, valid |-> valid]

\* Vec::push in place of insert: the element goes last
InsertLast(v, index, element) == Append(v, element)

\* Vec::insert(index, element): panics when index > len
InsertAt(v, index, element) ==
    [i \in 1..(Len(v) + 1) |->
        IF i <= index THEN v[i] ELSE IF i = index + 1 THEN element ELSE v[i - 1]]

\* utils::batch_decompress_ristretto_points: every key decompressed, or the
\* error of a key that does not decompress
batch_decompress_ristretto_points(public_keys) ==
    IF \A i \in 1..Len(public_keys) : public_keys[i].valid
    THEN [ret |-> OkUnit, pks |-> [i \in 1..Len(public_keys) |-> public_keys[i].id]]
    ELSE [ret |-> Err("PointDecompressionError", 0, 0, 0), pks |-> <<>>]

\* the count check that lets more keys than parties through
dealer_new_count_short(nn, public_keys) == Len(public_keys) < nn

\* Dealer::new: public_keys.len() != n
dealer_new_count_mismatch(nn, public_keys) == Len(public_keys) # nn

\* the dealer that a failed Dealer::new does not return
NoDealerKeys == [t |-> 0, public_keys |-> <<>>, secrets |-> NoneSeq]

\* b_pi_la Dealer::new on the keys themselves: the count is checked, then
\* every key is decompressed, and the dealer holds the decompressed keys
dealer_new_keys(nn, tt, public_keys) ==
    IF dealer_new_count_mismatch(nn, public_keys)
    THEN [ret |-> Err("CountMismatch", nn, Len(public_keys), 0), self |-> NoDealerKeys]
    ELSE IF ~IsOk(batch_decompress_ristretto_points(public_keys).ret)
    THEN [ret |-> batch_decompress_ristretto_points(public_keys).ret, self |-> NoDealerKeys]
    ELSE [ret |-> OkUnit,
          self |-> [t |-> tt,
                    public_keys |-> batch_decompress_ristretto_points(public_keys).pks,
                    secrets |-> NoneSeq]]

\* utils::ingest_public_keys: n - 1 keys of the others, the own key inserted
\* at own_index - 1
ingest_public_keys(nn, own_public_key, own_index, public_keys) ==
    IF nn < 1 THEN [ret |-> Panic, pks |-> <<>>]
    ELSE IF Len(public_keys) # nn - 1
    THEN [ret |-> Err("CountMismatch", nn, Len(public_keys), 0), pks |-> <<>>]
    ELSE IF ~IsOk(batch_decompress_ristretto_points(public_keys).ret)
    THEN [ret |-> batch_decompress_ristretto_points(public_keys).ret, pks |-> <<>>]
    ELSE IF own_index < 1 \/ own_index - 1 > Len(public_keys)
    THEN [ret |-> Panic, pks |-> <<>>]
    ELSE [ret |-> OkUnit,
          pks |-> InsertAt(batch_decompress_ristretto_points(public_keys).pks,
                           own_index - 1, own_public_key)]

\* Party::ingest_public_keys: the same on the party's own n, index and key
party_ingest_public_keys_store(self, got) ==
    [ret |-> got.ret,
     self |-> IF IsOk(got.ret) THEN [self EXCEPT !.public_keys = SomeSeq(got.pks)] ELSE self]

party_ingest_public_keys(self, public_keys) ==
    party_ingest_public_keys_store(self,
        ingest_public_keys(self.n, self.index, self.index, public_keys))

\* Party::ingest_share
ingest_share(self, share) ==
    [ret |-> OkUnit, self |-> [self EXCEPT !.share = SomeSeq(share)]]

\* ingest_dealer_proof that tests the length of z alone
ingest_dealer_proof_z_only(self, cvals, z) ==
    IF Len(z) # self.t + 1
    THEN [ret |-> Err("InvalidProof", Len(z), self.t, 0), self |-> self]
    ELSE [ret |-> OkUnit, self |-> [self EXCEPT !.dealer_proof = SomeProof(cvals, z)]]

\* Party::ingest_dealer_proof
ingest_dealer_proof(self, cvals, z) ==
    IF Len(z) # self.t + 1
    THEN [ret |-> Err("InvalidProof", Len(z), self.t, 0), self |-> self]
    ELSE IF Len(cvals) # self.n
    THEN [ret |-> Err("InvalidProof", Len(cvals), self.n, 1), self |-> self]
    ELSE [ret |-> OkUnit, self |-> [self EXCEPT !.dealer_proof = SomeProof(cvals, z)]]

\* ingest_shares that stores before it tests the length
ingest_shares_store_first(self, shares) ==
    [ret |-> IF Len(shares) = self.n THEN OkUnit
             ELSE Err("CountMismatch", self.n, Len(shares), 0),
     self |-> [self EXCEPT !.shares = SomeSeq(shares)]]

\* Party::ingest_shares
ingest_shares(self, shares) ==
    IF Len(shares) = self.n
    THEN [ret |-> OkUnit, self |-> [self EXCEPT !.shares = SomeSeq(shares)]]
    ELSE [ret |-> Err("CountMismatch", self.n, Len(shares), 0), self |-> self]

\* check_bit that compares nothing
check_bit_always(cvals, i, digest) == TRUE

\* let check_bit = cvals[i] == *buf (i is 0-based)
check_bit(cvals, i, digest) == cvals[i + 1] = digest

\* Party::verify_share: recompute d, r(index) = z(index) - sum_j d^j f_j,
\* hash the share and r(index), compare with cvals[index - 1]
verify_share(self, hasher, buf) ==
    IF ~self.dealer_proof.some
    THEN [ret |-> Err("UninitializedValue", 0, 0, 0), self |-> self, hasher |-> hasher, buf |-> buf]
    ELSE IF ~self.share.some
    THEN [ret |-> Err("UninitializedValue", 1, 0, 0), self |-> self, hasher |-> hasher, buf |-> buf]
    ELSE
      LET cvals == self.dealer_proof.cvals
          z == self.dealer_proof.z
          share == self.share.v
          k == Len(share)
          derived == compute_d_powers_from_hash_commitments(hasher, buf, cvals, k)
          z_eval == evaluate(z, self.index)
          r_val == compute_r_eval(z_eval, share, derived.d_vals)
          digest == hash_share(share, r_val)
      IN  IF self.index < 1 \/ self.index > Len(cvals)
          THEN [ret |-> Panic, self |-> self, hasher |-> derived.hasher, buf |-> digest]
          ELSE [ret |-> OkBool(check_bit(cvals, self.index - 1, digest)),
                self |-> self, hasher |-> derived.hasher, buf |-> ZeroBuf]

\* collect without the filter: every index of 0..n is kept
collect_every_index(passed, i, nn) == [m \in 1..(nn - i) |-> i + m - 1]

\* .filter(Option::is_some).map(unwrap).collect() over (0..n): the indices
\* whose check passed, ascending
RECURSIVE collect_validated(_, _, _)
collect_validated(passed, i, nn) ==
    IF i >= nn THEN <<>>
    ELSE (IF passed[i + 1] THEN <<i>> ELSE <<>>) \o collect_validated(passed, i + 1, nn)

\* the verdict with >= in place of >
verify_shares_ret_geq(validated_shares, tt) == OkBool(Len(validated_shares) >= tt)

\* Ok(self.validated_shares.len() > self.t)
verify_shares_ret(validated_shares, tt) == OkBool(Len(validated_shares) > tt)

\* the indices that pass pushed after the ones the party already holds
verify_shares_appending(self, hasher, buf) ==
    IF ~self.dealer_proof.some
    THEN [ret |-> Err("UninitializedValue", 0, 0, 0), self |-> self, hasher |-> hasher, buf |-> buf]
    ELSE IF ~self.shares.some
    THEN [ret |-> Err("UninitializedValue", 1, 0, 0), self |-> self, hasher |-> hasher, buf |-> buf]
    ELSE IF self.shares.v = <<>>
    THEN [ret |-> Panic, self |-> self, hasher |-> hasher, buf |-> buf]
    ELSE
      LET cvals == self.dealer_proof.cvals
          z == self.dealer_proof.z
          shares == self.shares.v
          k == Len(shares[1])
          derived == compute_d_powers_from_hash_commitments(hasher, buf, cvals, k)
          z_evals == evaluate_range(z, 1, self.n)
          passed == [i \in 1..self.n |->
                        check_bit(cvals, i - 1,
                                  hash_share(shares[i],
                                             compute_r_eval(z_evals[i], shares[i], derived.d_vals)))]
          validated == self.validated_shares \o collect_validated(passed, 0, self.n)
      IN  [ret |-> verify_shares_ret(validated, self.t),
           self |-> [self EXCEPT !.validated_shares = validated],
           hasher |-> derived.hasher,
           buf |-> derived.buf]

\* Party::verify_shares
verify_shares(self, hasher, buf) ==
    IF ~self.dealer_proof.some
    THEN [ret |-> Err("UninitializedValue", 0, 0, 0), self |-> self, hasher |-> hasher, buf |-> buf]
    ELSE IF ~self.shares.some
    THEN [ret |-> Err("UninitializedValue", 1, 0, 0), self |-> self, hasher |-> hasher, buf |-> buf]
    ELSE IF self.shares.v = <<>>
    THEN [ret |-> Panic, self |-> self, hasher |-> hasher, buf |-> buf]
    ELSE
      LET cvals == self.dealer_proof.cvals
          z == self.dealer_proof.z
          shares == self.shares.v
          k == Len(shares[1])
          derived == compute_d_powers_from_hash_commitments(hasher, buf, cvals, k)
          z_evals == evaluate_range(z, 1, self.n)
          passed == [i \in 1..self.n |->
                        check_bit(cvals, i - 1,
                                  hash_share(shares[i],
                                             compute_r_eval(z_evals[i], shares[i], derived.d_vals)))]
          validated == collect_validated(passed, 0, self.n)
      IN  [ret |-> verify_shares_ret(validated, self.t),
           self |-> [self EXCEPT !.validated_shares = validated],
           hasher |-> derived.hasher,
           buf |-> derived.buf]

\* x -> (x + 1, shares[x].clone())
qualified_pair(shares, x) == [index |-> x + 1, share |-> shares[x + 1]]

\* the guard of Party::select_qualified_set
party_select_guard(self) == Len(self.validated_shares) > self.t

\* Party::select_qualified_set.  shuffled is validated_shares after
\* tmp.shuffle(rng): any arrangement of it
select_qualified_set_party(self, shuffled) ==
    IF ~self.shares.some
    THEN [ret |-> Err("UninitializedValue", 2, 0, 0), self |-> self]
    ELSE IF party_select_guard(self)
    THEN [ret |-> OkUnit,
          self |-> [self EXCEPT !.qualified_set =
                      SomeSeq([i \in 1..Min(self.t + 1, Len(shuffled)) |->
                                  qualified_pair(self.shares.v, shuffled[i])])]]
    ELSE [ret |-> Err("InsufficientShares", Len(self.validated_shares), self.t, 0), self |-> self]

\* the guard of secret_sharing::select_qualified_set
common_select_guard(tt, shares, validated_shares) == Len(shares) > tt

\* secret_sharing::select_qualified_set
select_qualified_set(tt, shares, validated_shares, shuffled) ==
    IF ~shares.some
    THEN [ret |-> Err("UninitializedValue", 2, 0, 0), qualified_set |-> <<>>]
    ELSE IF common_select_guard(tt, shares.v, validated_shares)
    THEN [ret |-> OkUnit,
          qualified_set |-> [i \in 1..Min(tt + 1, Len(shuffled)) |->
                                qualified_pair(shares.v, shuffled[i])]]
    ELSE [ret |-> Err("InsufficientShares", Len(validated_shares), tt, 0), qualified_set |-> <<>>]

\* the basis with i - j in place of j - i
compute_lagrange_basis_swapped(i, qualified_set) ==
    ProdSeq([m \in 1..Len(qualified_set) |->
                IF i = qualified_set[m] THEN 1
                ELSE LET zq_j == ScalarFrom(qualified_set[m])
                         zq_i == ScalarFrom(i)
                     IN  Mul(zq_j, Invert(Sub(zq_i, zq_j)))])

\* utils::compute_lagrange_basis: prod over j in the set, j # i, of j / (j - i)
compute_lagrange_basis(i, qualified_set) ==
    ProdSeq([m \in 1..Len(qualified_set) |->
                IF i = qualified_set[m] THEN 1
                ELSE LET zq_j == ScalarFrom(qualified_set[m])
                         zq_i == ScalarFrom(i)
                     IN  Mul(zq_j, Invert(Sub(zq_j, zq_i)))])

\* utils::compute_lagrange_bases
compute_lagrange_bases(qualified_set) ==
    [m \in 1..Len(qualified_set) |-> compute_lagrange_basis(qualified_set[m], qualified_set)]

\* secret_sharing::reconstruct_secrets: for each component, sum_i lambda_i * share_i[k];
\* qualified_set[0] is read for k, and poly_share[k] for every zipped pair
reconstruct_secrets(qualified_set, lambdas) ==
    IF ~qualified_set.some
    THEN [ret |-> Err("UninitializedValue", 3, 0, 0), out |-> <<>>]
    ELSE IF qualified_set.v = <<>>
    THEN [ret |-> Panic, out |-> <<>>]
    ELSE
      LET qs == qualified_set.v
          k == Len(qs[1].share)
          m == Min(Len(qs), Len(lambdas))
      IN  IF \E i \in 1..m : Len(qs[i].share) < k
          THEN [ret |-> Panic, out |-> <<>>]
          ELSE [ret |-> OkUnit,
                out |-> [c \in 1..k |->
                            SumSeq([i \in 1..m |-> Mul(lambdas[i], qs[i].share[c])])]]

\* Party::reconstruct_secrets: every zipped (share, lambda) pair is scaled,
\* then the rows are summed per component; scaled_shares[0] is read for k
party_reconstruct_secrets(self, lambdas) ==
    IF ~self.qualified_set.some
    THEN [ret |-> Err("UninitializedValue", 3, 0, 0), out |-> <<>>]
    ELSE IF Min(Len(self.qualified_set.v), Len(lambdas)) = 0
    THEN [ret |-> Panic, out |-> <<>>]
    ELSE
      LET qs == self.qualified_set.v
          m == Min(Len(qs), Len(lambdas))
          k == Len(qs[1].share)
      IN  IF \E i \in 1..m : Len(qs[i].share) < k
          THEN [ret |-> Panic, out |-> <<>>]
          ELSE [ret |-> OkUnit,
                out |-> [c \in 1..k |->
                            SumSeq([i \in 1..m |-> Mul(lambdas[i], qs[i].share[c])])]]

\* ------------------------------------------------------------------- group
\* A RistrettoPoint is kept as its discrete logarithm to the basepoint, in
\* the scalar field of the model.
Point(dl) == [dl |-> dl]

IdentityPoint == Point(0)

\* RistrettoPoint::mul_base
mul_base(s) == Point(s)

\* scalar * point
PointMul(s, P) == Point(Mul(s, P.dl))

PointAdd(P1, P2) == Point(Add(P1.dl, P2.dl))

PointSub(P1, P2) == Point(Sub(P1.dl, P2.dl))

RECURSIVE PointSum(_)
PointSum(ps) == IF ps = <<>> THEN IdentityPoint ELSE PointAdd(Head(ps), PointSum(Tail(ps)))

\* RistrettoPoint::compress: the 32 bytes of a point, which decompress to it
compress(P) == CompressedKey(P, TRUE)

\* CompressedRistretto::decompress
decompress(c) == IF c.valid THEN [some |-> TRUE, v |-> c.id] ELSE [some |-> FALSE, v |-> IdentityPoint]

\* a table whose row at position x (0-based) holds 1, x, ..., x^t: the layout
\* that &x_powers[i] with i the evaluation point reads
IndexedPowers(nn, tt) == [i \in 1..(nn + 1) |-> XPowers(i - 1, tt + 1)]

\* the x_pows argument: the table of gen_powers, or the table laid out as read
TableOf(kind, nn, tt) == IF kind = "gen_powers" THEN gen_powers(nn, tt) ELSE IndexedPowers(nn, tt)

TableKinds == {"gen_powers", "indexed"}

\* secret_sharing::generate_encrypted_shares_batched: f_eval * pub_key, compressed
encrypt_shares_batched(shares, public_keys) ==
    IF ~IsOk(shares.ret)
    THEN [ret |-> Panic, f_polynomials |-> <<>>, encrypted_shares |-> <<>>, rng |-> shares.rng]
    ELSE [ret |-> OkUnit,
          f_polynomials |-> shares.f_polynomials,
          encrypted_shares |->
              [i \in 1..Min(Len(shares.f_evals), Len(public_keys)) |->
                  [j \in 1..Len(shares.f_evals[i]) |->
                      compress(PointMul(shares.f_evals[i][j], public_keys[i]))]],
          rng |-> shares.rng]

generate_encrypted_shares_batched(tt, x_pows_, public_keys, secrets_, rng_) ==
    encrypt_shares_batched(
        generate_shares_batched(Len(public_keys), tt, x_pows_, secrets_, rng_), public_keys)

\* secret_sharing::decrypt_share: private_key.invert() * encrypted_share
decrypt_share(private_key, encrypted_share) == PointMul(Invert(private_key), encrypted_share)

\* secret_sharing::reconstruct_secrets_exponent: for each component,
\* sum_i lambda_i * share_i[k]; qualified_set[0] is read for k
reconstruct_secrets_exponent(qualified_set, lambdas) ==
    IF ~qualified_set.some
    THEN [ret |-> Err("UninitializedValue", 3, 0, 0), out |-> <<>>]
    ELSE IF qualified_set.v = <<>>
    THEN [ret |-> Panic, out |-> <<>>]
    ELSE
      LET qs == qualified_set.v
          k == Len(qs[1].share)
          m == Min(Len(qs), Len(lambdas))
      IN  IF \E i \in 1..m : Len(qs[i].share) < k
          THEN [ret |-> Panic, out |-> <<>>]
          ELSE [ret |-> OkUnit,
                out |-> [c \in 1..k |->
                            PointSum([i \in 1..m |-> PointMul(lambdas[i], qs[i].share[c])])]]

\* -------------------------------------------------------------------- Pi_S
\* The scalar that from_bytes_mod_order_wide makes of the XOF output of a
\* hasher that absorbed compressed points: its value in the field, and the
\* bytes absorbed.  Two such scalars are equal when the same bytes were
\* absorbed (the hash has no collisions).
challenge_of_points(absorbed) ==
    [val |-> from_bytes_mod_order_wide(
                 FoldMix(0, [i \in 1..Len(absorbed) |-> absorbed[i].id.dl])),
     pre |-> absorbed]

\* *d == reconstructed_d taken as true
challenge_eq_always(d, reconstructed_d) == TRUE

\* *d == reconstructed_d
challenge_eq(d, reconstructed_d) == d = reconstructed_d

\* secret_sharing::generate_shares: sample_set_f0, then evaluate_range_precomp at 1..=n
secret_sharing_generate_shares_evals(polynomial, evals) ==
    [ret |-> evals.ret, polynomial |-> polynomial.coefficients, evals |-> evals.evals,
     rng |-> polynomial.rng]

secret_sharing_generate_shares_sampled(nn, x_pows_, polynomial) ==
    secret_sharing_generate_shares_evals(polynomial,
        evaluate_range_precomp(polynomial.coefficients, x_pows_, 1, nn))

secret_sharing_generate_shares(rng_, nn, tt, x_pows_, secret) ==
    secret_sharing_generate_shares_sampled(nn, x_pows_, sample_set_f0(tt, rng_, secret))

\* .zip(public_keys).map(|(f_eval, pub_key)| (f_eval * pub_key).compress())
encrypt_evals(evals, public_keys) ==
    [i \in 1..Min(Len(evals), Len(public_keys)) |-> compress(PointMul(evals[i], public_keys[i]))]

\* pi_s Dealer::new
pi_s_dealer_new(nn, tt, public_keys) ==
    IF Len(public_keys) # nn
    THEN [ret |-> Err("CountMismatch", nn, Len(public_keys), 0),
          self |-> [t |-> 0, public_keys |-> <<>>, secret |-> NoneSeq]]
    ELSE IF ~IsOk(batch_decompress_ristretto_points(public_keys).ret)
    THEN [ret |-> batch_decompress_ristretto_points(public_keys).ret,
          self |-> [t |-> 0, public_keys |-> <<>>, secret |-> NoneSeq]]
    ELSE [ret |-> OkUnit,
          self |-> [t |-> tt,
                    public_keys |-> batch_decompress_ristretto_points(public_keys).pks,
                    secret |-> NoneSeq]]

\* pi_s Dealer::generate_encrypted_shares
pi_s_generate_encrypted_shares_of(self, gen) ==
    [ret |-> gen.ret,
     f_polynomial |-> gen.polynomial,
     f_evals |-> IF IsOk(gen.ret) THEN encrypt_evals(gen.evals, self.public_keys) ELSE <<>>,
     rng |-> gen.rng]

pi_s_generate_encrypted_shares(self, rng_, x_pows_, secret) ==
    pi_s_generate_encrypted_shares_of(self,
        secret_sharing_generate_shares(rng_, Len(self.public_keys), self.t, x_pows_, secret))

\* pi_s Dealer::generate_proof, from the challenge on: hasher.reset(),
\* buf.zeroize(), r.compute_z(&[f_polynomial], &[d]), (d, r)
pi_s_generate_proof_z(r, d, f_polynomial) ==
    [ret |-> OkUnit,
     d |-> d,
     z |-> compute_z(r.coefficients, <<f_polynomial>>, <<d.val>>),
     rng |-> r.rng,
     hasher |-> <<>>,
     buf |-> ZeroBuf]

\* pi_s Dealer::generate_proof, after r is evaluated: the hasher absorbs the
\* encrypted shares, then the encrypted evaluations of r
pi_s_generate_proof_evals(self, r, r_evals, hasher_, buf_, f_polynomial, f_evals) ==
    IF ~IsOk(r_evals.ret)
    THEN [ret |-> Panic, d |-> challenge_of_points(<<>>), z |-> <<>>, rng |-> r.rng,
          hasher |-> hasher_, buf |-> buf_]
    ELSE pi_s_generate_proof_z(r,
             challenge_of_points(hasher_ \o f_evals \o encrypt_evals(r_evals.evals, self.public_keys)),
             f_polynomial)

\* pi_s Dealer::generate_proof, after r is sampled
pi_s_generate_proof_r(self, r, hasher_, buf_, x_pows_, f_polynomial, f_evals) ==
    pi_s_generate_proof_evals(self, r,
        evaluate_range_precomp(r.coefficients, x_pows_, 1, Len(self.public_keys)),
        hasher_, buf_, f_polynomial, f_evals)

\* pi_s Dealer::generate_proof
pi_s_generate_proof(self, rng_, hasher_, buf_, x_pows_, f_polynomial, f_evals) ==
    pi_s_generate_proof_r(self, sample(self.t, rng_), hasher_, buf_, x_pows_, f_polynomial, f_evals)

\* pi_s Dealer::deal_secret: self.secret = Some(*secret), then the shares and
\* the proof; (f_evals, (d, z)), or the panic of either step
pi_s_deal_result(self, secret, gen, proof) ==
    [ret |-> proof.ret,
     self |-> [self EXCEPT !.secret = SomeSeq(secret)],
     encrypted_shares |-> gen.f_evals,
     d |-> proof.d,
     z |-> proof.z,
     f_polynomial |-> gen.f_polynomial,
     rng |-> proof.rng,
     hasher |-> proof.hasher,
     buf |-> proof.buf]

pi_s_deal_proof(self, hasher_, buf_, x_pows_, secret, gen) ==
    IF ~IsOk(gen.ret)
    THEN [ret |-> Panic, self |-> [self EXCEPT !.secret = SomeSeq(secret)],
          encrypted_shares |-> <<>>, d |-> challenge_of_points(<<>>), z |-> <<>>,
          f_polynomial |-> <<>>, rng |-> gen.rng, hasher |-> hasher_, buf |-> buf_]
    ELSE pi_s_deal_result(self, secret, gen,
             pi_s_generate_proof(self, gen.rng, hasher_, buf_, x_pows_, gen.f_polynomial, gen.f_evals))

pi_s_deal_secret(self, rng_, hasher_, buf_, x_pows_, secret) ==
    pi_s_deal_proof(self, hasher_, buf_, x_pows_, secret,
                    pi_s_generate_encrypted_shares(self, rng_, x_pows_, secret))

pi_s_NoParty ==
    [private_key |-> 0, public_key |-> <<compress(IdentityPoint), IdentityPoint>>,
     index |-> 0, n |-> 0, t |-> 0, share_proof |-> NoneSeq, encrypted_share |-> NoneSeq,
     decrypted_share |-> NoneSeq, dealer_proof |-> NoneSeq, public_keys |-> NoneSeq,
     encrypted_shares |-> NoneSeq, decrypted_shares |-> NoneSeq, share_proofs |-> NoneSeq,
     validated_shares |-> <<>>, qualified_set |-> NoneSeq]

\* pi_s Party::new: the private key is drawn before the parameters are looked at
pi_s_party_new_drawn(g, drawn, nn, tt, index) ==
    IF party_new_guard(nn, tt, index)
    THEN [ret |-> OkUnit,
          self |-> [pi_s_NoParty EXCEPT
                        !.private_key = drawn.val,
                        !.public_key = <<compress(PointMul(drawn.val, g)), PointMul(drawn.val, g)>>,
                        !.index = index, !.n = nn, !.t = tt],
          rng |-> drawn.rng]
    ELSE [ret |-> Err("InvalidParameterSet", nn, tt, index), self |-> pi_s_NoParty,
          rng |-> drawn.rng]

pi_s_party_new(g, rng_, nn, tt, index) ==
    pi_s_party_new_drawn(g, random_scalar(rng_), nn, tt, index)

\* pi_s party::generate_parties: Party::new(g, rng, n, t, i).unwrap() for i in 1..=n
RECURSIVE pi_s_generate_parties_from(_, _, _, _, _)
pi_s_generate_parties_from(g, rng_, nn, tt, i) ==
    IF i > nn THEN [ret |-> OkUnit, parties |-> <<>>, rng |-> rng_]
    ELSE LET first == pi_s_party_new(g, rng_, nn, tt, i)
         IN  IF ~IsOk(first.ret) THEN [ret |-> Panic, parties |-> <<>>, rng |-> first.rng]
             ELSE LET rest == pi_s_generate_parties_from(g, first.rng, nn, tt, i + 1)
                  IN  [ret |-> rest.ret,
                       parties |-> IF IsOk(rest.ret) THEN <<first.self>> \o rest.parties ELSE <<>>,
                       rng |-> rest.rng]

pi_s_generate_parties(g, rng_, nn, tt) == pi_s_generate_parties_from(g, rng_, nn, tt, 1)

\* pi_s Party::ingest_encrypted_shares
pi_s_ingest_encrypted_shares(self, encrypted_shares) ==
    IF Len(encrypted_shares) # self.n
    THEN [ret |-> Err("CountMismatch", self.n, Len(encrypted_shares), 0), self |-> self]
    ELSE IF ~IsOk(batch_decompress_ristretto_points(encrypted_shares).ret)
    THEN [ret |-> batch_decompress_ristretto_points(encrypted_shares).ret, self |-> self]
    ELSE IF self.index < 1 \/ self.index > Len(encrypted_shares)
    THEN [ret |-> Panic, self |-> self]
    ELSE [ret |-> OkUnit,
          self |-> [self EXCEPT
                        !.encrypted_share =
                            SomeSeq(batch_decompress_ristretto_points(encrypted_shares).pks[self.index]),
                        !.encrypted_shares =
                            SomeSeq(<<encrypted_shares,
                                      batch_decompress_ristretto_points(encrypted_shares).pks>>)]]

\* pi_s Party::ingest_public_keys: n - 1 keys of the others, the own key
\* inserted at index - 1
pi_s_ingest_public_keys(self, public_keys) ==
    party_ingest_public_keys_store(self,
        ingest_public_keys(self.n, self.public_key[2], self.index, public_keys))

\* pi_s Party::ingest_dealer_proof
pi_s_ingest_dealer_proof(self, d, z) ==
    IF d.val = 0
    THEN [ret |-> Err("InvalidProof", 0, 0, 0), self |-> self]
    ELSE IF Len(z) # self.t + 1
    THEN [ret |-> Err("InvalidProof", Len(z), self.t + 1, 0), self |-> self]
    ELSE [ret |-> OkUnit, self |-> [self EXCEPT !.dealer_proof = SomeSeq(<<d, z>>)]]

\* pi_s Party::verify_encrypted_shares, the commitments rebuilt:
\* (z_eval * pub_key - enc_share * d).compress() for the zipped triples
rebuilt_commitments(z_evals, public_keys, enc_shares, d) ==
    [i \in 1..Min(Len(z_evals), Min(Len(public_keys), Len(enc_shares))) |->
        compress(PointSub(PointMul(z_evals[i], public_keys[i]), PointMul(d.val, enc_shares[i])))]

\* pi_s Party::verify_encrypted_shares, after z is evaluated
pi_s_verify_encrypted_shares_evals(self, hasher_, buf_, z_evals) ==
    IF ~IsOk(z_evals.ret)
    THEN [ret |-> Panic, hasher |-> hasher_, buf |-> buf_]
    ELSE [ret |-> OkBool(challenge_eq(self.dealer_proof.v[1],
                      challenge_of_points(hasher_ \o self.encrypted_shares.v[1]
                          \o rebuilt_commitments(z_evals.evals, self.public_keys.v,
                                                 self.encrypted_shares.v[2],
                                                 self.dealer_proof.v[1])))),
          hasher |-> <<>>,
          buf |-> ZeroBuf]

\* pi_s Party::verify_encrypted_shares
pi_s_verify_encrypted_shares(self, hasher_, buf_, xpows) ==
    IF ~self.dealer_proof.some
    THEN [ret |-> Err("UninitializedValue", 1, 0, 0), hasher |-> hasher_, buf |-> buf_]
    ELSE IF ~self.encrypted_shares.some \/ ~self.public_keys.some
    THEN [ret |-> Err("UninitializedValue", 2, 0, 0), hasher |-> hasher_, buf |-> buf_]
    ELSE pi_s_verify_encrypted_shares_evals(self, hasher_, buf_,
             evaluate_range_precomp(self.dealer_proof.v[2], xpows, 1, self.n))

\* pi_s Party::decrypt_share
pi_s_decrypt_share(self) ==
    IF ~self.encrypted_share.some
    THEN [ret |-> Err("UninitializedValue", 4, 0, 0), self |-> self]
    ELSE [ret |-> OkUnit,
          self |-> [self EXCEPT !.decrypted_share =
                        SomeSeq(PointMul(Invert(self.private_key), self.encrypted_share.v))]]

\* the challenge of a DLEQ proof: the hasher absorbs the public key, the
\* encrypted share and the two commitments, compressed
dleq_challenge(hasher_, public_key, enc_share, c1, c2) ==
    challenge_of_points(hasher_ \o <<compress(public_key), compress(enc_share),
                                     compress(c1), compress(c2)>>)

\* dleq_share answering with z = r - d * private_key
pi_s_dleq_share_d_minus(self, r, d) ==
    [ret |-> OkUnit,
     self |-> [self EXCEPT !.share_proof = SomeSeq(<<d, Sub(r.val, Mul(d.val, self.private_key))>>)],
     rng |-> r.rng,
     hasher |-> <<>>,
     buf |-> ZeroBuf]

\* pi_s Party::dleq_share, after r is drawn: c1 = g * r, c2 = decrypted_share * r,
\* z = r + d * private_key
pi_s_dleq_share_d(self, r, d) ==
    [ret |-> OkUnit,
     self |-> [self EXCEPT !.share_proof = SomeSeq(<<d, Add(r.val, Mul(d.val, self.private_key))>>)],
     rng |-> r.rng,
     hasher |-> <<>>,
     buf |-> ZeroBuf]

pi_s_dleq_share_r(self, g, r, hasher_) ==
    pi_s_dleq_share_d(self, r,
        dleq_challenge(hasher_, self.public_key[2], self.encrypted_share.v,
                       PointMul(r.val, g), PointMul(r.val, self.decrypted_share.v)))

\* pi_s Party::dleq_share
pi_s_dleq_share(self, g, rng_, hasher_, buf_) ==
    IF ~self.decrypted_share.some \/ ~self.encrypted_share.some
    THEN [ret |-> Err("UninitializedValue", 5, 0, 0), self |-> self, rng |-> rng_,
          hasher |-> hasher_, buf |-> buf_]
    ELSE pi_s_dleq_share_r(self, g, random_scalar(rng_), hasher_)

\* pi_s Party::ingest_decrypted_shares_and_proofs
pi_s_ingest_decrypted_shares_and_proofs(self, decrypted_shares, proofs) ==
    IF self.n < 1 THEN [ret |-> Panic, self |-> self]
    ELSE IF Len(decrypted_shares) # self.n - 1
    THEN [ret |-> Err("CountMismatch", self.n, Len(decrypted_shares), 0), self |-> self]
    ELSE IF Len(proofs) # Len(decrypted_shares)
    THEN [ret |-> Err("CountMismatch", self.n, Len(proofs), 1), self |-> self]
    ELSE IF ~IsOk(batch_decompress_ristretto_points(decrypted_shares).ret)
    THEN [ret |-> batch_decompress_ristretto_points(decrypted_shares).ret, self |-> self]
    ELSE IF ~self.decrypted_share.some \/ ~self.share_proof.some
    THEN [ret |-> Err("UninitializedValue", 6, 0, 0), self |-> self]
    ELSE IF self.index < 1 \/ self.index - 1 > Len(decrypted_shares)
    THEN [ret |-> Panic, self |-> self]
    ELSE [ret |-> OkUnit,
          self |-> [self EXCEPT
                        !.decrypted_shares =
                            SomeSeq(InsertAt(batch_decompress_ristretto_points(decrypted_shares).pks,
                                             self.index - 1, self.decrypted_share.v)),
                        !.share_proofs =
                            SomeSeq(InsertAt(proofs, self.index - 1, self.share_proof.v))]]

\* pi_s Party::verify_decrypted_shares, the check of the proof at position i (0-based):
\* the challenge rebuilt from g * z - public_key * d and dec_share * z - enc_share * d
dleq_check(g, dec_share, proof, public_key, enc_share) ==
    proof[1] = dleq_challenge(<<>>, public_key, enc_share,
                   PointSub(PointMul(proof[2], g), PointMul(proof[1].val, public_key)),
                   PointSub(PointMul(proof[2], dec_share), PointMul(proof[1].val, enc_share)))

\* pi_s Party::verify_decrypted_shares: the indices whose proof checks,
\* in ascending order, over the zipped vectors
pi_s_validated(self, g) ==
    LET m == Min(Min(Len(self.decrypted_shares.v), Len(self.share_proofs.v)),
                 Min(Len(self.public_keys.v), Len(self.encrypted_shares.v[2])))
    IN  SelectSeq([i \in 1..m |-> i - 1],
                  LAMBDA i : dleq_check(g, self.decrypted_shares.v[i + 1], self.share_proofs.v[i + 1],
                                        self.public_keys.v[i + 1], self.encrypted_shares.v[2][i + 1]))

pi_s_verify_decrypted_shares_store(self, validated) ==
    [ret |-> OkBool(Len(validated) > self.t),
     self |-> [self EXCEPT !.validated_shares = validated]]

pi_s_verify_decrypted_shares(self, g) ==
    IF ~self.public_keys.some \/ ~self.encrypted_shares.some
    THEN [ret |-> Err("UninitializedValue", 2, 0, 0), self |-> self]
    ELSE IF ~self.decrypted_shares.some \/ ~self.share_proofs.some
    THEN [ret |-> Err("UninitializedValue", 7, 0, 0), self |-> self]
    ELSE pi_s_verify_decrypted_shares_store(self, pi_s_validated(self, g))

\* pi_s Party::select_qualified_set; shuffled is what tmp.shuffle(rng) and
\* take(t + 1) left
pi_s_select_qualified_set(self, shuffled) ==
    IF ~self.decrypted_shares.some
    THEN [ret |-> Err("UninitializedValue", 8, 0, 0), self |-> self]
    ELSE IF ~(Len(self.validated_shares) > self.t)
    THEN [ret |-> Err("InsufficientShares", Len(self.validated_shares), self.t, 0), self |-> self]
    ELSE IF \E i \in 1..Len(shuffled) : shuffled[i] + 1 > Len(self.decrypted_shares.v)
    THEN [ret |-> Panic, self |-> self]
    ELSE [ret |-> OkUnit,
          self |-> [self EXCEPT !.qualified_set =
                        SomeSeq([i \in 1..Len(shuffled) |->
                                    <<shuffled[i] + 1, self.decrypted_shares.v[shuffled[i] + 1]>>])]]

\* pi_s Party::reconstruct_secret: the sum of lambda * decrypted_share over the zipped pairs
pi_s_reconstruct_secret(self, lambdas) ==
    IF ~self.qualified_set.some
    THEN [ret |-> Err("UninitializedValue", 3, 0, 0), out |-> IdentityPoint]
    ELSE [ret |-> OkUnit,
          out |-> PointSum([i \in 1..Min(Len(self.qualified_set.v), Len(lambdas)) |->
                               PointMul(lambdas[i], self.qualified_set.v[i][2])])]

\* ------------------------------------------------ B_Feldman and B_Pedersen
\* The width of usize, scaled down as the scalar field is: a power is
\* computed in this width before it is turned into a scalar.
UsizeBits == 3

UsizeModulus == 2 ^ UsizeBits

\* usize::pow: the power modulo 2^width; a result that does not fit panics
\* in a build with overflow checks and wraps in one without
usize_pow(base, exp, overflow_checks) ==
    [panic |-> overflow_checks /\ base ^ exp >= UsizeModulus,
     v |-> (base ^ exp) % UsizeModulus]

\* fi.iter().zip(self.g.iter()).map(|(fik, gk)| fik * gk), summed
weighted_sum(fi, g) ==
    PointSum([k \in 1..Min(Len(fi), Len(g)) |-> PointMul(fi[k], g[k])])

\* the powers numbered after the skip: skip(from).enumerate()
power_sum_skip_first(cvals, x, from, overflow_checks) ==
    PointSum([m \in 1..(Len(cvals) - from) |->
                 PointMul(ScalarFrom(usize_pow(x, m - 1, overflow_checks).v),
                          cvals[from + m])])

\* cvals.iter().enumerate().skip(from).map(|(t, c)| c * Scalar::from(x.pow(t as u32) as u64)), summed
power_sum(cvals, x, from, overflow_checks) ==
    PointSum([m \in 1..(Len(cvals) - from) |->
                 PointMul(ScalarFrom(usize_pow(x, from + m - 1, overflow_checks).v),
                          cvals[from + m])])

pow_panics(cvals, x, from, overflow_checks) ==
    \E m \in 1..(Len(cvals) - from) : usize_pow(x, from + m - 1, overflow_checks).panic

\* random::random_point: RistrettoPoint::from_uniform_bytes of 64 bytes of the rng
random_point(rng_) == [val |-> Point(RngNext(rng_) % Q), rng |-> RngNext(rng_)]

\* random::random_points
RECURSIVE random_points(_, _)
random_points(rng_, cnt) ==
    IF cnt = 0 THEN [vals |-> <<>>, rng |-> rng_]
    ELSE LET first == random_point(rng_)
             rest == random_points(first.rng, cnt - 1)
         IN  [vals |-> <<first.val>> \o rest.vals, rng |-> rest.rng]

\* b_feldman and b_pedersen struct Party; g0 is of b_pedersen only and is
\* left at the identity in b_feldman
commit_NoParty ==
    [g |-> <<>>, g0 |-> IdentityPoint, private_key |-> 0,
     public_key |-> <<compress(IdentityPoint), IdentityPoint>>, index |-> 0, n |-> 0, t |-> 0,
     public_keys |-> NoneSeq, dealer_proof |-> NoneSeq, validated_shares |-> <<>>,
     share |-> NoneSeq, d |-> NoneSeq, shares |-> NoneSeq, qualified_set |-> NoneSeq]

\* b_feldman / b_pedersen Party::new
commit_party_new_drawn(generator, g, g0, drawn, nn, tt, index) ==
    IF party_new_guard(nn, tt, index)
    THEN [ret |-> OkUnit,
          self |-> [commit_NoParty EXCEPT
                        !.g = g, !.g0 = g0, !.private_key = drawn.val,
                        !.public_key = <<compress(PointMul(drawn.val, generator)),
                                         PointMul(drawn.val, generator)>>,
                        !.index = index, !.n = nn, !.t = tt],
          rng |-> drawn.rng]
    ELSE [ret |-> Err("InvalidParameterSet", nn, tt, index), self |-> commit_NoParty,
          rng |-> drawn.rng]

commit_party_new(generator, g, g0, rng_, nn, tt, index) ==
    commit_party_new_drawn(generator, g, g0, random_scalar(rng_), nn, tt, index)

\* b_feldman / b_pedersen generate_parties
RECURSIVE commit_generate_parties_from(_, _, _, _, _, _, _)
commit_generate_parties_from(generator, g, g0, rng_, nn, tt, i) ==
    IF i > nn THEN [ret |-> OkUnit, parties |-> <<>>, rng |-> rng_]
    ELSE LET first == commit_party_new(generator, g, g0, rng_, nn, tt, i)
         IN  IF ~IsOk(first.ret) THEN [ret |-> Panic, parties |-> <<>>, rng |-> first.rng]
             ELSE LET rest == commit_generate_parties_from(generator, g, g0, first.rng, nn, tt, i + 1)
                  IN  [ret |-> rest.ret,
                       parties |-> IF IsOk(rest.ret) THEN <<first.self>> \o rest.parties ELSE <<>>,
                       rng |-> rest.rng]

commit_generate_parties(generator, g, g0, rng_, nn, tt) ==
    commit_generate_parties_from(generator, g, g0, rng_, nn, tt, 1)

\* b_feldman / b_pedersen Dealer::new
commit_dealer_new(g, g0, nn, tt, public_keys) ==
    IF Len(public_keys) # nn
    THEN [ret |-> Err("CountMismatch", nn, Len(public_keys), 0),
          self |-> [t |-> 0, g |-> <<>>, g0 |-> IdentityPoint, public_keys |-> <<>>,
                    secret |-> NoneSeq]]
    ELSE IF ~IsOk(batch_decompress_ristretto_points(public_keys).ret)
    THEN [ret |-> batch_decompress_ristretto_points(public_keys).ret,
          self |-> [t |-> 0, g |-> <<>>, g0 |-> IdentityPoint, public_keys |-> <<>>,
                    secret |-> NoneSeq]]
    ELSE [ret |-> OkUnit,
          self |-> [t |-> tt, g |-> g, g0 |-> g0,
                    public_keys |-> batch_decompress_ristretto_points(public_keys).pks,
                    secret |-> NoneSeq]]

\* b_feldman Dealer::generate_proof: c_buf[t] = sum over the zipped (f_k, g_k)
\* of g_k * f_k[t], compressed
b_feldman_generate_proof(self, c_buf, f_polynomials) ==
    [m \in 1..Len(c_buf) |->
        compress(PointSum([k \in 1..Min(Len(f_polynomials), Len(self.g)) |->
                              PointMul(f_polynomials[k][m], self.g[k])]))]

\* b_feldman Dealer::deal_secret: (f_evals, c_buf)
b_feldman_deal_proof(self, gen) ==
    IF ~IsOk(gen.ret)
    THEN [ret |-> Panic, shares |-> <<>>, r_evals |-> <<>>, c_vals |-> <<>>,
          f_polynomials |-> <<>>, rng |-> gen.rng]
    ELSE [ret |-> OkUnit,
          shares |-> gen.f_evals,
          r_evals |-> <<>>,
          c_vals |-> b_feldman_generate_proof(self,
                         [m \in 1..(self.t + 1) |-> compress(IdentityPoint)], gen.f_polynomials),
          f_polynomials |-> gen.f_polynomials,
          rng |-> gen.rng]

b_feldman_deal_secret(self, x_pows_, secrets_, rng_) ==
    b_feldman_deal_proof(self,
        generate_shares_batched(Len(self.public_keys), self.t, x_pows_, secrets_, rng_))

\* b_pedersen Dealer::generate_proof, the commitments pushed: for t in
\* 0..r.len(), g0 * r[t] + sum for k in 0..g.len() of g[k] * f_polynomials[k][t]
b_pedersen_commitments(self, r, f_polynomials) ==
    [m \in 1..Len(r) |->
        compress(PointAdd(PointMul(r[m], self.g0),
                          PointSum([k \in 1..Len(self.g) |->
                                       PointMul(f_polynomials[k][m], self.g[k])])))]

\* b_pedersen Dealer::generate_proof, after r is sampled and evaluated
b_pedersen_generate_proof_evals(self, r, r_evals, f_polynomials) ==
    IF ~IsOk(r_evals.ret) \/ Len(self.g) > Len(f_polynomials)
    THEN [ret |-> Panic, r_evals |-> <<>>, c_buf |-> <<>>, rng |-> r.rng]
    ELSE [ret |-> OkUnit, r_evals |-> r_evals.evals,
          c_buf |-> b_pedersen_commitments(self, r.coefficients, f_polynomials),
          rng |-> r.rng]

b_pedersen_generate_proof_r(self, r, x_pows_, f_polynomials) ==
    b_pedersen_generate_proof_evals(self, r,
        evaluate_range_precomp(r.coefficients, x_pows_, 1, Len(self.public_keys)),
        f_polynomials)

\* b_pedersen Dealer::generate_proof
b_pedersen_generate_proof(self, rng_, x_pows_, f_polynomials) ==
    b_pedersen_generate_proof_r(self, sample(self.t, rng_), x_pows_, f_polynomials)

\* b_pedersen Dealer::deal_secret: (f_evals, (r_evals, c_buf))
b_pedersen_deal_result(gen, proof) ==
    [ret |-> proof.ret,
     shares |-> IF IsOk(proof.ret) THEN gen.f_evals ELSE <<>>,
     r_evals |-> proof.r_evals,
     c_vals |-> proof.c_buf,
     f_polynomials |-> gen.f_polynomials,
     rng |-> proof.rng]

b_pedersen_deal_proof(self, x_pows_, gen) ==
    IF ~IsOk(gen.ret)
    THEN [ret |-> Panic, shares |-> <<>>, r_evals |-> <<>>, c_vals |-> <<>>,
          f_polynomials |-> <<>>, rng |-> gen.rng]
    ELSE b_pedersen_deal_result(gen,
             b_pedersen_generate_proof(self, gen.rng, x_pows_, gen.f_polynomials))

b_pedersen_deal_secret(self, rng_, x_pows_, secrets_) ==
    b_pedersen_deal_proof(self, x_pows_,
        generate_shares_batched(Len(self.public_keys), self.t, x_pows_, secrets_, rng_))

\* b_feldman / b_pedersen Party::ingest_dealer_proof
commit_ingest_dealer_proof(self, proof) ==
    IF Len(proof) # self.t + 1
    THEN [ret |-> Err("InvalidProof", Len(proof), self.t + 1, 0), self |-> self]
    ELSE IF \E m \in 1..Len(proof) : ~proof[m].valid
    THEN [ret |-> Err("PointDecompressionError", 0, 0, 0), self |-> self]
    ELSE [ret |-> OkUnit,
          self |-> [self EXCEPT !.dealer_proof =
                        SomeSeq(<<proof, [m \in 1..Len(proof) |-> proof[m].id]>>)]]

\* b_feldman Party::ingest_share: assert!(share.len() == self.g.len())
b_feldman_ingest_share(self, share) ==
    IF Len(share) # Len(self.g) THEN [ret |-> Panic, self |-> self]
    ELSE [ret |-> OkUnit, self |-> [self EXCEPT !.share = SomeSeq(share)]]

\* b_pedersen Party::ingest_share: assert!(share.0.len() == self.g.len())
b_pedersen_ingest_share(self, share) ==
    IF Len(share[1]) # Len(self.g) THEN [ret |-> Panic, self |-> self]
    ELSE [ret |-> OkUnit, self |-> [self EXCEPT !.share = SomeSeq(share)]]

\* b_feldman Party::ingest_shares
b_feldman_ingest_shares(self, shares) ==
    IF Len(shares) # self.n
    THEN [ret |-> Err("CountMismatch", self.n, Len(shares), 0), self |-> self]
    ELSE IF shares = <<>> THEN [ret |-> Panic, self |-> self]
    ELSE IF Len(shares[1]) # Len(self.g)
    THEN [ret |-> Err("CountMismatch", self.n, Len(shares), 0), self |-> self]
    ELSE [ret |-> OkUnit, self |-> [self EXCEPT !.shares = SomeSeq(shares)]]

\* b_pedersen Party::ingest_shares: the pairs (shares.0[i], shares.1[i])
b_pedersen_ingest_shares(self, shares) ==
    IF Len(shares[1]) # self.n \/ Len(shares[2]) # self.n
    THEN [ret |-> Err("CountMismatch", self.n, Len(shares[1]), 0), self |-> self]
    ELSE [ret |-> OkUnit,
          self |-> [self EXCEPT !.shares =
                        SomeSeq([i \in 1..self.n |-> <<shares[1][i], shares[2][i]>>])]]

\* b_feldman: a == b for the share fi and the point x
b_feldman_check(self, fi, x, overflow_checks) ==
    weighted_sum(fi, self.g) = power_sum(self.dealer_proof.v[2], x, 0, overflow_checks)

\* b_feldman Party::verify_share: the powers are of self.index
b_feldman_verify_share(self, overflow_checks) ==
    IF ~self.dealer_proof.some THEN [ret |-> Err("UninitializedValue", 1, 0, 0), self |-> self]
    ELSE IF ~self.share.some THEN [ret |-> Err("UninitializedValue", 2, 0, 0), self |-> self]
    ELSE IF pow_panics(self.dealer_proof.v[2], self.index, 0, overflow_checks)
    THEN [ret |-> Panic, self |-> self]
    ELSE [ret |-> OkBool(b_feldman_check(self, self.share.v, self.index, overflow_checks)),
          self |-> self]

\* b_feldman Party::verify_shares: the powers are of i + 1 for the share at i
b_feldman_validated(self, overflow_checks) ==
    SelectSeq([i \in 1..Len(self.shares.v) |-> i - 1],
              LAMBDA i : b_feldman_check(self, self.shares.v[i + 1], i + 1, overflow_checks))

b_feldman_verify_shares(self, overflow_checks) ==
    IF ~self.dealer_proof.some THEN [ret |-> Err("UninitializedValue", 1, 0, 0), self |-> self]
    ELSE IF ~self.shares.some THEN [ret |-> Err("UninitializedValue", 2, 0, 0), self |-> self]
    ELSE IF \E i \in 1..Len(self.shares.v) :
                pow_panics(self.dealer_proof.v[2], i, 0, overflow_checks)
    THEN [ret |-> Panic, self |-> self]
    ELSE [ret |-> OkBool(Len(b_feldman_validated(self, overflow_checks)) > self.t),
          self |-> [self EXCEPT !.validated_shares = b_feldman_validated(self, overflow_checks)]]

\* b_pedersen: a == b for the share (fi, ri): a = g0 * ri + sum fik * gk,
\* b = cvals[0] + sum over t >= 1 of cvals[t] * self.index^t
b_pedersen_check(self, share, overflow_checks) ==
    PointAdd(PointMul(share[2], self.g0), weighted_sum(share[1], self.g))
        = PointAdd(self.dealer_proof.v[2][1],
                   power_sum(self.dealer_proof.v[2], self.index, 1, overflow_checks))

\* b_pedersen Party::verify_share
b_pedersen_verify_share(self, overflow_checks) ==
    IF ~self.dealer_proof.some THEN [ret |-> Err("UninitializedValue", 1, 0, 0), self |-> self]
    ELSE IF ~self.share.some THEN [ret |-> Err("UninitializedValue", 2, 0, 0), self |-> self]
    ELSE IF pow_panics(self.dealer_proof.v[2], self.index, 1, overflow_checks)
    THEN [ret |-> Panic, self |-> self]
    ELSE [ret |-> OkBool(b_pedersen_check(self, self.share.v, overflow_checks)), self |-> self]

\* b_pedersen Party::verify_shares: every share is held against the
\* commitments at self.index
b_pedersen_validated(self, overflow_checks) ==
    SelectSeq([i \in 1..Len(self.shares.v) |-> i - 1],
              LAMBDA i : b_pedersen_check(self, self.shares.v[i + 1], overflow_checks))

b_pedersen_verify_shares(self, overflow_checks) ==
    IF ~self.dealer_proof.some THEN [ret |-> Err("UninitializedValue", 1, 0, 0), self |-> self]
    ELSE IF ~self.shares.some THEN [ret |-> Err("UninitializedValue", 2, 0, 0), self |-> self]
    ELSE IF self.shares.v # <<>> /\ pow_panics(self.dealer_proof.v[2], self.index, 1, overflow_checks)
    THEN [ret |-> Panic, self |-> self]
    ELSE [ret |-> OkBool(Len(b_pedersen_validated(self, overflow_checks)) > self.t),
          self |-> [self EXCEPT !.validated_shares = b_pedersen_validated(self, overflow_checks)]]

\* ------------------------------------------------------------- B_Pi_P_Plus
\* utils::compute_d_from_point_commitments: absorb the compressed
\* commitments, squeeze, reset the hasher, reduce, zeroize the buffer
compute_d_from_point_commitments(hasher_, buf_, commitments) ==
    [d |-> challenge_of_points(hasher_ \o commitments).val,
     hasher |-> <<>>,
     buf |-> ZeroBuf]

\* utils::compute_d_powers_from_point_commitments
compute_d_powers_from_point_commitments(hasher_, buf_, commitments, k) ==
    [d_vals |-> compute_d_powers(k, compute_d_from_point_commitments(hasher_, buf_, commitments).d),
     hasher |-> compute_d_from_point_commitments(hasher_, buf_, commitments).hasher,
     buf |-> compute_d_from_point_commitments(hasher_, buf_, commitments).buf]

\* b_pi_p_plus struct Party
b_pi_p_plus_NoParty ==
    [g1 |-> IdentityPoint, g2 |-> IdentityPoint, private_key |-> 0,
     public_key |-> <<compress(IdentityPoint), IdentityPoint>>, index |-> 0, n |-> 0, t |-> 0,
     public_keys |-> NoneSeq, dealer_proof |-> NoneSeq, validated_shares |-> <<>>,
     share |-> NoneSeq, d |-> NoneSeq, shares |-> NoneSeq, qualified_set |-> NoneSeq]

\* b_pi_p_plus Party::new
b_pi_p_plus_party_new_drawn(g, g1, g2, drawn, nn, tt, index) ==
    IF party_new_guard(nn, tt, index)
    THEN [ret |-> OkUnit,
          self |-> [b_pi_p_plus_NoParty EXCEPT
                        !.g1 = g1, !.g2 = g2, !.private_key = drawn.val,
                        !.public_key = <<compress(PointMul(drawn.val, g)), PointMul(drawn.val, g)>>,
                        !.index = index, !.n = nn, !.t = tt],
          rng |-> drawn.rng]
    ELSE [ret |-> Err("InvalidParameterSet", nn, tt, index), self |-> b_pi_p_plus_NoParty,
          rng |-> drawn.rng]

b_pi_p_plus_party_new(g, g1, g2, rng_, nn, tt, index) ==
    b_pi_p_plus_party_new_drawn(g, g1, g2, random_scalar(rng_), nn, tt, index)

\* b_pi_p_plus generate_parties
RECURSIVE b_pi_p_plus_generate_parties_from(_, _, _, _, _, _, _)
b_pi_p_plus_generate_parties_from(g, g1, g2, rng_, nn, tt, i) ==
    IF i > nn THEN [ret |-> OkUnit, parties |-> <<>>, rng |-> rng_]
    ELSE LET first == b_pi_p_plus_party_new(g, g1, g2, rng_, nn, tt, i)
         IN  IF ~IsOk(first.ret) THEN [ret |-> Panic, parties |-> <<>>, rng |-> first.rng]
             ELSE LET rest == b_pi_p_plus_generate_parties_from(g, g1, g2, first.rng, nn, tt, i + 1)
                  IN  [ret |-> rest.ret,
                       parties |-> IF IsOk(rest.ret) THEN <<first.self>> \o rest.parties ELSE <<>>,
                       rng |-> rest.rng]

b_pi_p_plus_generate_parties(g, g1, g2, rng_, nn, tt) ==
    b_pi_p_plus_generate_parties_from(g, g1, g2, rng_, nn, tt, 1)

\* b_pi_p_plus Dealer::new
b_pi_p_plus_dealer_new(g1, g2, nn, tt, public_keys) ==
    IF Len(public_keys) # nn
    THEN [ret |-> Err("CountMismatch", nn, Len(public_keys), 0),
          self |-> [t |-> 0, g1 |-> IdentityPoint, g2 |-> IdentityPoint, public_keys |-> <<>>,
                    secret |-> NoneSeq]]
    ELSE IF ~IsOk(batch_decompress_ristretto_points(public_keys).ret)
    THEN [ret |-> batch_decompress_ristretto_points(public_keys).ret,
          self |-> [t |-> 0, g1 |-> IdentityPoint, g2 |-> IdentityPoint, public_keys |-> <<>>,
                    secret |-> NoneSeq]]
    ELSE [ret |-> OkUnit,
          self |-> [t |-> tt, g1 |-> g1, g2 |-> g2,
                    public_keys |-> batch_decompress_ristretto_points(public_keys).pks,
                    secret |-> NoneSeq]]

\* let h = Scalar::from_bytes_mod_order_wide(l_buf)
share_scalar(l_buf) == from_bytes_mod_order_wide(DigestBytes(l_buf))

\* (self.g1 * h) + (self.g2 * gi)
b_pi_p_plus_commit(g1, g2, h, gi) == PointAdd(PointMul(h, g1), PointMul(gi, g2))

\* b_pi_p_plus Dealer::generate_proof, the commitments collected into c_buf:
\* a hasher of its own absorbs f_i and r_i, and the point is compressed
b_pi_p_plus_c_buf(self, f_evals, r_evals, g) ==
    [i \in 1..Min(Len(f_evals), Min(Len(r_evals), Len(g))) |->
        compress(b_pi_p_plus_commit(self.g1, self.g2,
                                    share_scalar(hash_share(f_evals[i], r_evals[i])), g[i]))]

\* b_pi_p_plus Dealer::generate_proof once c_buf is there: d_vals, then z
b_pi_p_plus_generate_proof_z(r, g, c_buf, derived, f_polynomials) ==
    [ret |-> OkUnit, g |-> g.vals, c_buf |-> c_buf,
     z |-> compute_z(r.coefficients, f_polynomials, derived.d_vals),
     rng |-> g.rng, hasher |-> derived.hasher, buf |-> derived.buf]

b_pi_p_plus_generate_proof_c(r, g, c_buf, hasher_, buf_, k, f_polynomials) ==
    b_pi_p_plus_generate_proof_z(r, g, c_buf,
        compute_d_powers_from_point_commitments(hasher_, buf_, c_buf, k), f_polynomials)

\* b_pi_p_plus Dealer::generate_proof after r is sampled and evaluated:
\* g = random_scalars(rng, n)
b_pi_p_plus_generate_proof_evals(self, r, r_evals, g, hasher_, buf_, k, f_polynomials, f_evals) ==
    IF ~IsOk(r_evals.ret)
    THEN [ret |-> Panic, g |-> <<>>, c_buf |-> <<>>, z |-> <<>>, rng |-> r.rng,
          hasher |-> hasher_, buf |-> buf_]
    ELSE b_pi_p_plus_generate_proof_c(r, g,
             b_pi_p_plus_c_buf(self, f_evals, r_evals.evals, g.vals),
             hasher_, buf_, k, f_polynomials)

b_pi_p_plus_generate_proof_r(self, r, hasher_, buf_, x_pows_, k, f_polynomials, f_evals) ==
    b_pi_p_plus_generate_proof_evals(self, r,
        evaluate_range_precomp(r.coefficients, x_pows_, 1, Len(self.public_keys)),
        random_scalars(r.rng, Len(self.public_keys)),
        hasher_, buf_, k, f_polynomials, f_evals)

\* b_pi_p_plus Dealer::generate_proof
b_pi_p_plus_generate_proof(self, rng_, hasher_, buf_, x_pows_, k, f_polynomials, f_evals) ==
    b_pi_p_plus_generate_proof_r(self, sample(self.t, rng_), hasher_, buf_, x_pows_, k,
                                 f_polynomials, f_evals)

\* b_pi_p_plus Dealer::deal_secret: (f_evals, (g, c_buf, z))
b_pi_p_plus_deal_result(gen, proof) ==
    [ret |-> proof.ret,
     shares |-> IF IsOk(proof.ret) THEN gen.f_evals ELSE <<>>,
     g |-> proof.g, cvals |-> proof.c_buf, z |-> proof.z,
     rng |-> proof.rng, hasher |-> proof.hasher, buf |-> proof.buf]

b_pi_p_plus_deal_proof(self, hasher_, buf_, x_pows_, k, gen) ==
    IF ~IsOk(gen.ret)
    THEN [ret |-> Panic, shares |-> <<>>, g |-> <<>>, cvals |-> <<>>, z |-> <<>>,
          rng |-> gen.rng, hasher |-> hasher_, buf |-> buf_]
    ELSE b_pi_p_plus_deal_result(gen,
             b_pi_p_plus_generate_proof(self, gen.rng, hasher_, buf_, x_pows_, k,
                                        gen.f_polynomials, gen.f_evals))

b_pi_p_plus_deal_secret(self, rng_, hasher_, buf_, x_pows_, secrets_) ==
    b_pi_p_plus_deal_proof(self, hasher_, buf_, x_pows_, Len(secrets_),
        generate_shares_batched(Len(self.public_keys), self.t, x_pows_, secrets_, rng_))

\* b_pi_p_plus Party::ingest_shares: the pairs (shares.0[i], shares.1[i])
b_pi_p_plus_ingest_shares(self, shares) ==
    IF Len(shares[1]) = self.n /\ Len(shares[2]) = self.n
    THEN [ret |-> OkUnit,
          self |-> [self EXCEPT !.shares =
                        SomeSeq([i \in 1..self.n |-> <<shares[1][i], shares[2][i]>>])]]
    ELSE [ret |-> Err("CountMismatch", self.n, Len(shares[1]), 0), self |-> self]

\* b_pi_p_plus Party::ingest_dealer_proof: (compressed c_vals, c_vals, z)
b_pi_p_plus_ingest_dealer_proof(self, c_vals, z) ==
    IF Len(z) # self.t + 1
    THEN [ret |-> Err("InvalidProof", Len(z), self.t + 1, 0), self |-> self]
    ELSE IF Len(c_vals) # self.n
    THEN [ret |-> Err("InvalidProof", Len(c_vals), self.n, 1), self |-> self]
    ELSE IF \E m \in 1..Len(c_vals) : ~decompress(c_vals[m]).some
    THEN [ret |-> Err("PointDecompressionError", 0, 0, 0), self |-> self]
    ELSE [ret |-> OkUnit,
          self |-> [self EXCEPT !.dealer_proof =
                        [some |-> TRUE, compressed_cvals |-> c_vals,
                         cvals |-> [m \in 1..Len(c_vals) |-> decompress(c_vals[m]).v],
                         z |-> z]]]

\* b_pi_p_plus verify_shares: cvals[i] == ((self.g1 * h) + (self.g2 * gi))
b_pi_p_plus_item_check(self, l_buf, i) ==
    self.dealer_proof.cvals[i + 1]
        = b_pi_p_plus_commit(self.g1, self.g2, share_scalar(l_buf), self.shares.v[i + 1][2])

\* b_pi_p_plus Party::verify_shares once d_vals and z_evals are there
b_pi_p_plus_verify_shares_loop(self, derived, z_evals) ==
    IF ~IsOk(z_evals.ret)
    THEN [ret |-> Panic, self |-> self, hasher |-> derived.hasher, buf |-> derived.buf]
    ELSE LET validated ==
                 collect_validated(
                     [i \in 1..self.n |->
                         b_pi_p_plus_item_check(self,
                             hash_share(self.shares.v[i][1],
                                        compute_r_eval(z_evals.evals[i], self.shares.v[i][1],
                                                       derived.d_vals)),
                             i - 1)],
                     0, self.n)
         IN  [ret |-> verify_shares_ret(validated, self.t),
              self |-> [self EXCEPT !.validated_shares = validated],
              hasher |-> derived.hasher, buf |-> derived.buf]

\* b_pi_p_plus Party::verify_shares
b_pi_p_plus_verify_shares(self, hasher_, buf_, x_pows_) ==
    IF ~self.dealer_proof.some
    THEN [ret |-> Err("UninitializedValue", 0, 0, 0), self |-> self, hasher |-> hasher_, buf |-> buf_]
    ELSE IF ~self.shares.some
    THEN [ret |-> Err("UninitializedValue", 1, 0, 0), self |-> self, hasher |-> hasher_, buf |-> buf_]
    ELSE IF self.shares.v = <<>>
    THEN [ret |-> Panic, self |-> self, hasher |-> hasher_, buf |-> buf_]
    ELSE b_pi_p_plus_verify_shares_loop(self,
             compute_d_powers_from_point_commitments(hasher_, buf_,
                 self.dealer_proof.compressed_cvals, Len(self.shares.v[1][1])),
             evaluate_range_precomp(self.dealer_proof.z, x_pows_, 1, self.n))

\* -------------------------------------------------------------------- Pi_P
\* pi_p Polynomial::sample_two_set_f0: degree + 1 pairs of draws, the first of
\* a pair to coefs_1 and the second to coefs_2, then coefs_1[0] = f0
pi_p_sample_two_of(degree, f0, draws) ==
    [f |-> [j \in 1..(degree + 1) |-> IF j = 1 THEN f0 ELSE draws.vals[2 * j - 1]],
     r |-> [j \in 1..(degree + 1) |-> draws.vals[2 * j]],
     rng |-> draws.rng]

pi_p_sample_two_set_f0(degree, f0, rng_) ==
    pi_p_sample_two_of(degree, f0, random_scalars(rng_, 2 * (degree + 1)))

\* pi_p Polynomial::evaluate_two_range: both polynomials folded over the
\* powers of i, the zip stopping at the shortest of the three
pi_p_evaluate_two_range(self, other, from, to) ==
    [f_evals |-> [m \in 1..(to - from + 1) |->
                     ZipMulSum(SubSeq(self, 1, Min(Len(self), Len(other))),
                               XPowers(from + m - 1, Len(self)))],
     r_evals |-> [m \in 1..(to - from + 1) |->
                     ZipMulSum(SubSeq(other, 1, Min(Len(self), Len(other))),
                               XPowers(from + m - 1, Len(self)))]]

\* pi_p Polynomial::mul_sum: *p1_coef *= mul_val; *p1_coef += p2_coef
pi_p_mul_sum(self, mul_val, p2) ==
    [i \in 1..Len(self) |->
        IF i <= Len(p2) THEN Add(Mul(self[i], mul_val), p2[i]) ELSE self[i]]

\* pi_p Dealer::new
pi_p_dealer_new(g1, g2, g3, nn, tt, public_keys) ==
    IF Len(public_keys) # nn
    THEN [ret |-> Err("CountMismatch", nn, Len(public_keys), 0),
          self |-> [t |-> 0, g1 |-> IdentityPoint, g2 |-> IdentityPoint, g3 |-> IdentityPoint,
                    public_keys |-> <<>>, secret |-> NoneSeq]]
    ELSE IF ~IsOk(batch_decompress_ristretto_points(public_keys).ret)
    THEN [ret |-> batch_decompress_ristretto_points(public_keys).ret,
          self |-> [t |-> 0, g1 |-> IdentityPoint, g2 |-> IdentityPoint, g3 |-> IdentityPoint,
                    public_keys |-> <<>>, secret |-> NoneSeq]]
    ELSE [ret |-> OkUnit,
          self |-> [t |-> tt, g1 |-> g1, g2 |-> g2, g3 |-> g3,
                    public_keys |-> batch_decompress_ristretto_points(public_keys).pks,
                    secret |-> NoneSeq]]

\* (self.g1 * fi + self.g2 * ri + self.g3 * gi).compress()
pi_p_c_vals(self, f_evals, r_evals, g) ==
    [i \in 1..Min(Len(f_evals), Min(Len(r_evals), Len(g))) |->
        compress(PointAdd(PointAdd(PointMul(f_evals[i], self.g1), PointMul(r_evals[i], self.g2)),
                          PointMul(g[i], self.g3)))]

\* the test self.g1 == self.g2 * d of pi_p Dealer::deal_secret
pi_p_g1_is_g2_d(self, d) == self.g1 = PointMul(d, self.g2)

\* pi_p Dealer::deal_secret from the challenge on: panic!("g1 == g2^d"), or
\* z = f.clone() with mul_sum(&d, &r)
pi_p_deal_secret_d(self, secret, polys, evals, g, c_vals, derived) ==
    IF pi_p_g1_is_g2_d(self, derived.d)
    THEN [ret |-> Panic, self |-> [self EXCEPT !.secret = SomeSeq(secret)],
          shares |-> <<>>, g |-> <<>>, cvals |-> <<>>, z |-> <<>>, d |-> derived.d,
          rng |-> g.rng, hasher |-> derived.hasher, buf |-> derived.buf]
    ELSE [ret |-> OkUnit, self |-> [self EXCEPT !.secret = SomeSeq(secret)],
          shares |-> evals.f_evals, g |-> g.vals, cvals |-> c_vals,
          z |-> pi_p_mul_sum(polys.f, derived.d, polys.r), d |-> derived.d,
          rng |-> g.rng, hasher |-> derived.hasher, buf |-> derived.buf]

pi_p_deal_secret_c(self, secret, polys, evals, g, c_vals, hasher_, buf_) ==
    pi_p_deal_secret_d(self, secret, polys, evals, g, c_vals,
                       compute_d_from_point_commitments(hasher_, buf_, c_vals))

pi_p_deal_secret_g(self, secret, polys, evals, g, hasher_, buf_) ==
    pi_p_deal_secret_c(self, secret, polys, evals, g,
                       pi_p_c_vals(self, evals.f_evals, evals.r_evals, g.vals), hasher_, buf_)

pi_p_deal_secret_sampled(self, secret, polys, hasher_, buf_) ==
    pi_p_deal_secret_g(self, secret, polys,
                       pi_p_evaluate_two_range(polys.f, polys.r, 1, Len(self.public_keys)),
                       random_scalars(polys.rng, Len(self.public_keys)), hasher_, buf_)

\* pi_p Dealer::deal_secret: ((f_evals, g), (c_vals, z))
pi_p_deal_secret(self, rng_, hasher_, buf_, secret) ==
    pi_p_deal_secret_sampled(self, secret, pi_p_sample_two_set_f0(self.t, secret, rng_),
                             hasher_, buf_)

\* ------------------------------------------------------------------- Pi_LA
\* common Polynomial::sample_two_set_f0, evaluate_two_range and mul_sum: the
\* code of pi_p's polynomial module, with random_scalar(rng) for the draws
sample_two_set_f0(degree, f0, rng_) == pi_p_sample_two_set_f0(degree, f0, rng_)

evaluate_two_range(self, other, from, to) == pi_p_evaluate_two_range(self, other, from, to)

mul_sum(self, mul_val, p2) == pi_p_mul_sum(self, mul_val, p2)

\* pi_la Dealer::deal_secret, the commitments: a local hasher absorbs fi,
\* then ri, and the XOF output is cloned out
pi_la_c_vals(f_evals, r_evals) ==
    [i \in 1..Min(Len(f_evals), Len(r_evals)) |-> hash_share(<<f_evals[i]>>, r_evals[i])]

\* pi_la Dealer::deal_secret from the challenge on: f.mul_sum(&d, &r)
pi_la_deal_secret_d(polys, evals, c_vals, derived) ==
    [shares |-> evals.f_evals, cvals |-> c_vals, z |-> mul_sum(polys.f, derived.d, polys.r),
     rng |-> polys.rng, hasher |-> derived.hasher, buf |-> derived.buf]

pi_la_deal_secret_evals(polys, evals, c_vals, hasher_, buf_) ==
    pi_la_deal_secret_d(polys, evals, c_vals,
                        compute_d_from_hash_commitments(hasher_, buf_, c_vals))

\* pi_la Dealer::deal_secret after sample_two_set_f0
pi_la_deal_secret_sampled(self, polys, evals, hasher_, buf_) ==
    pi_la_deal_secret_evals(polys, evals, pi_la_c_vals(evals.f_evals, evals.r_evals),
                            hasher_, buf_)

\* pi_la Dealer::deal_secret: (f_evals, (c_vals, f))
pi_la_deal_secret(self, rng_, hasher_, buf_, secret) ==
    pi_la_deal_secret_sampled(self, sample_two_set_f0(self.t, secret, rng_),
        evaluate_two_range(sample_two_set_f0(self.t, secret, rng_).f,
                           sample_two_set_f0(self.t, secret, rng_).r, 1, self.public_keys),
        hasher_, buf_)

\* pi_la Party::verify_shares once d and z_evals are there: the zip of shares
\* and z_evals, each share hashed with its r value and compared with cvals[i]
pi_la_verify_shares_evals(self, derived, z_evals) ==
    IF ~IsOk(z_evals.ret)
    THEN [ret |-> Panic, self |-> self, hasher |-> derived.hasher, buf |-> derived.buf]
    ELSE [ret |-> verify_shares_ret(
                      collect_validated(
                          [i \in 1..Min(Len(self.shares.v), Len(z_evals.evals)) |->
                              check_bit(self.dealer_proof.cvals, i - 1,
                                        hash_share(<<self.shares.v[i]>>,
                                                   compute_r_eval(z_evals.evals[i],
                                                                  <<self.shares.v[i]>>,
                                                                  <<derived.d>>)))],
                          0, Min(Len(self.shares.v), Len(z_evals.evals))),
                      self.t),
          self |-> [self EXCEPT !.validated_shares =
                      collect_validated(
                          [i \in 1..Min(Len(self.shares.v), Len(z_evals.evals)) |->
                              check_bit(self.dealer_proof.cvals, i - 1,
                                        hash_share(<<self.shares.v[i]>>,
                                                   compute_r_eval(z_evals.evals[i],
                                                                  <<self.shares.v[i]>>,
                                                                  <<derived.d>>)))],
                          0, Min(Len(self.shares.v), Len(z_evals.evals)))],
          hasher |-> derived.hasher, buf |-> derived.buf]

\* pi_la Party::verify_shares
pi_la_verify_shares(self, hasher_, buf_, x_pows_) ==
    IF ~self.dealer_proof.some
    THEN [ret |-> Err("UninitializedValue", 0, 0, 0), self |-> self, hasher |-> hasher_,
          buf |-> buf_]
    ELSE IF ~self.shares.some
    THEN [ret |-> Err("UninitializedValue", 1, 0, 0), self |-> self, hasher |-> hasher_,
          buf |-> buf_]
    ELSE pi_la_verify_shares_evals(self,
             compute_d_from_hash_commitments(hasher_, buf_, self.dealer_proof.cvals),
             evaluate_range_precomp(self.dealer_proof.z, x_pows_, 1, self.n))

\* ------------------------------------------- the parallel loop of verify_shares
\* (0..self.n).into_par_iter().map_init(init, check).filter(..).map(..).collect():
\* the range is cut into runs of consecutive items, each run is a job of the
\* thread pool with a state of its own that init makes, and a job takes the
\* items of its run one after the other.
Workers == {"w1", "w2"}

\* || (Hasher::new(), [0u8; 64])
map_init_state == [l_hasher |-> <<>>, l_buf |-> ZeroBuf]

\* a thread of the pool that runs no job
IdleWorker == [stage |-> "idle", at |-> 0, l_hasher |-> <<>>, l_buf |-> ZeroBuf]

\* the hasher left as finalize_xof found it
l_hasher_kept(absorbed) == absorbed

\* l_hasher.reset()
l_hasher_reset(absorbed) == <<>>

\* The closure up to l_hasher.reset(), for item i (0-based): the scalars of
\* shares[i] and r_val go into the job's hasher, the XOF output fills l_buf
item_hash(local, fi, zi, d_vals) ==
    LET absorbed == local.l_hasher \o fi \o <<compute_r_eval(zi, fi, d_vals)>>
    IN  [local EXCEPT !.stage = "hashed",
                      !.l_hasher = l_hasher_reset(absorbed),
                      !.l_buf = Xof(absorbed)]

\* B_Pi_LA: let check_bit = cvals[i] == *l_buf
b_pi_la_item_check(self, local, i) == check_bit(self.dealer_proof.cvals, i, local.l_buf)

\* the result of item i: if check_bit { Some(i) } else { None }
item_result(passed) == IF passed THEN "Some" ELSE "None"

\* the state of verify_shares once d_vals and z_evals are there and the loop
\* starts: no item is taken, no job runs; finished lists the items in the
\* order their checks end
forked_job(proto, self, hasher_, buf_, x_pows_, d_vals, z_evals) ==
    [phase |-> "forked",
     proto |-> proto,
     args |-> [self |-> self, hasher |-> hasher_, buf |-> buf_, x_pows |-> x_pows_],
     d_vals |-> d_vals,
     z_evals |-> z_evals,
     out |-> [i \in 1..self.n |-> "todo"],
     finished |-> <<>>,
     locals |-> [w \in Workers |-> IdleWorker]]

\* .filter(Option::is_some).map(|res| res.unwrap()).collect(): the items that
\* gave Some(i), in the order of the items
job_validated(out) == collect_validated([i \in 1..Len(out) |-> out[i] = "Some"], 0, Len(out))

\* ------------------------------------------------------------------- state
VARIABLES
    pc,        \* position of the session (b_pi_la end_to_end)
    n, t,      \* parameters of the session
    x_pows,    \* the precomputed power table
    rng,       \* state of the caller's PRNG
    hasher,    \* the shared transcript hasher: what it has absorbed
    buf,       \* the shared 64-byte buffer
    dealer,    \* the Dealer
    secrets,   \* the secrets dealt
    dealt,     \* what deal_secrets_v2 returned: shares, cvals, z
    wire,      \* what reaches the parties: shares, cvals, z
    tamper,    \* what was altered on the way, if anything
    cur,       \* the loop variable: index of the party at work
    p,         \* the party at work
    op, ret,   \* the last operation called and what it returned
    vsRet,     \* what verify_share returned, per party
    recon,     \* what reconstruct_secrets returned
    arg,       \* the arguments handed to the last operation, where recorded
    G,         \* the generator of the session (pi_s end_to_end)
    parties,   \* the parties of the session (pi_s end_to_end)
    job        \* the per-share checks of a verify_shares under way, and what runs them

vars == <<pc, n, t, x_pows, rng, hasher, buf, dealer, secrets, dealt, wire, tamper, cur, p,
          op, ret, vsRet, recon, arg, G, parties, job>>

\* no verify_shares is under way
NoJob == [phase |-> "idle"]

NoDeal == [shares |-> <<>>, cvals |-> <<>>, z |-> <<>>]

NoTamper == [kind |-> "none", i |-> 0, j |-> 0]

NoDealer == [t |-> 0, public_keys |-> 0]

Init ==
    /\ pc = "start"
    /\ n = 0
    /\ t = 0
    /\ x_pows = <<>>
    /\ rng = 0
    /\ hasher = <<>>
    /\ buf = ZeroBuf
    /\ dealer = NoDealer
    /\ secrets = <<>>
    /\ dealt = NoDeal
    /\ wire = NoDeal
    /\ tamper = NoTamper
    /\ cur = 0
    /\ p = NoParty
    /\ op = "none"
    /\ ret = NoRet
    /\ vsRet = <<>>
    /\ recon = <<>>
    /\ arg = <<>>
    /\ G = IdentityPoint
    /\ parties = <<>>
    /\ job = NoJob

\* Party::new called with an arbitrary triple
PartyNew(nn, tt, index) ==
    /\ pc = "start"
    /\ pc' = "probed"
    /\ op' = "new"
    /\ ret' = party_new(nn, tt, index).ret
    /\ p' = party_new(nn, tt, index).self
    /\ UNCHANGED <<parties, G, job, arg, x_pows, n, t, rng, hasher, buf, dealer, secrets, dealt, wire, tamper, cur, vsRet, recon>>

\* The session begins: rng = rand::rng(), xpows = gen_powers(N, T)
Begin(nn, tt, seed) ==
    /\ pc = "start"
    /\ pc' = "powers"
    /\ n' = nn
    /\ t' = tt
    /\ rng' = seed
    /\ x_pows' = gen_powers(nn, tt)
    /\ vsRet' = [i \in 1..nn |-> NoRet]
    /\ op' = "gen_powers"
    /\ ret' = OkUnit
    /\ UNCHANGED <<parties, G, job, arg, hasher, buf, dealer, secrets, dealt, wire, tamper, cur, p, recon>>

\* generate_parties(g, rng, N, T)
GenerateParties ==
    /\ pc = "powers"
    /\ op' = "generate_parties"
    /\ ret' = generate_parties(n, t)
    /\ pc' = IF IsOk(generate_parties(n, t)) THEN "parties" ELSE "panic"
    /\ UNCHANGED <<parties, G, job, arg, x_pows, n, t, rng, hasher, buf, dealer, secrets, dealt, wire, tamper, cur, p, vsRet, recon>>

\* Dealer::new(N, T, &public_keys).unwrap() with the n keys of the parties
DealerNew ==
    /\ pc = "parties"
    /\ op' = "dealer_new"
    /\ ret' = dealer_new(n, t, n).ret
    /\ dealer' = dealer_new(n, t, n).self
    /\ pc' = IF IsOk(dealer_new(n, t, n).ret) THEN "dealer" ELSE "panic"
    /\ UNCHANGED <<parties, G, job, arg, x_pows, n, t, rng, hasher, buf, secrets, dealt, wire, tamper, cur, p, vsRet, recon>>

\* secrets = random_scalars(rng, K); dealer.deal_secrets_v2(rng, hasher, buf, &secrets)
DealOut(secrets_, out) ==
    /\ secrets' = secrets_
    /\ dealt' = [shares |-> out.shares, cvals |-> out.cvals, z |-> out.z]
    /\ wire' = [shares |-> out.shares, cvals |-> out.cvals, z |-> out.z]
    /\ rng' = out.rng
    /\ hasher' = out.hasher
    /\ buf' = out.buf

DealDrawn(drawn) == DealOut(drawn.vals, deal_secrets_v2(dealer, drawn.rng, hasher, buf, drawn.vals))

Deal(kk) ==
    /\ pc = "dealer"
    /\ DealDrawn(random_scalars(rng, kk))
    /\ pc' = "dealt"
    /\ op' = "deal_secrets"
    /\ ret' = OkUnit
    /\ UNCHANGED <<parties, G, job, arg, x_pows, n, t, dealer, tamper, cur, p, vsRet, recon>>

\* secrets = random_scalars(rng, k); generate_shares_batched(n, t, &x_pows, &secrets),
\* then select_qualified_set over &Some(shares), &(0..n) and reconstruct_secrets
\* (secret_sharing gen_shares_batch)
BatchedOut(secrets_, out) ==
    /\ secrets' = secrets_
    /\ ret' = out.ret
    /\ rng' = out.rng
    /\ IF IsOk(out.ret)
       THEN /\ wire' = [shares |-> out.f_evals, cvals |-> <<>>, z |-> <<>>]
            /\ p' = [NoParty EXCEPT !.n = n, !.t = t, !.shares = SomeSeq(out.f_evals),
                                    !.validated_shares = [i \in 1..n |-> i - 1]]
            /\ cur' = n
            /\ pc' = "p_vss"
       ELSE /\ pc' = "panic"
            /\ UNCHANGED <<wire, p, cur>>

BatchedDrawn(drawn) ==
    BatchedOut(drawn.vals, generate_shares_batched(n, t, x_pows, drawn.vals, drawn.rng))

GenerateSharesBatched(kk) ==
    /\ pc = "dealer"
    /\ BatchedDrawn(random_scalars(rng, kk))
    /\ op' = "generate_shares_batched"
    /\ UNCHANGED <<parties, G, job, arg, x_pows, n, t, hasher, buf, dealer, dealt, tamper, vsRet, recon>>

\* share[i][j] is overwritten with share[i][j] + 1 before verification (0-based i, j)
TamperShare(i, j) ==
    /\ pc = "dealt"
    /\ tamper = NoTamper
    /\ i < Len(wire.shares)
    /\ j < Len(wire.shares[i + 1])
    /\ wire' = [wire EXCEPT !.shares[i + 1][j + 1] = Add(@, 1)]
    /\ tamper' = [kind |-> "share", i |-> i, j |-> j]
    /\ UNCHANGED <<parties, G, job, arg, x_pows, pc, n, t, rng, hasher, buf, dealer, secrets, dealt, cur, p, op, ret, vsRet, recon>>

\* a further share is altered the same way, its first scalar, for a party
\* above those altered before: several parties hold a wrong share
TamperAnotherShare(i) ==
    /\ pc = "dealt"
    /\ tamper.kind \in {"share", "shares"}
    /\ tamper.i < i
    /\ i < Len(wire.shares)
    /\ wire' = [wire EXCEPT !.shares[i + 1][1] = Add(@, 1)]
    /\ tamper' = [kind |-> "shares", i |-> i, j |-> 0]
    /\ UNCHANGED <<parties, G, job, arg, x_pows, pc, n, t, rng, hasher, buf, dealer, secrets, dealt, cur, p, op, ret, vsRet, recon>>

\* one byte of the commitment C[i] is flipped (0-based i): the 64 bytes are
\* no longer the hash of anything the parties compute
TamperCommitment(i) ==
    /\ pc = "dealt"
    /\ tamper = NoTamper
    /\ i < Len(wire.cvals)
    /\ wire' = [wire EXCEPT !.cvals[i + 1].flip = 1]
    /\ tamper' = [kind |-> "commitment", i |-> i, j |-> 0]
    /\ UNCHANGED <<parties, G, job, arg, x_pows, pc, n, t, rng, hasher, buf, dealer, secrets, dealt, cur, p, op, ret, vsRet, recon>>

\* coefficient j of z is replaced by another scalar (0-based j)
TamperZ(j, delta) ==
    /\ pc = "dealt"
    /\ tamper = NoTamper
    /\ j < Len(wire.z)
    /\ wire' = [wire EXCEPT !.z[j + 1] = Add(@, delta)]
    /\ tamper' = [kind |-> "z", i |-> 0, j |-> j]
    /\ UNCHANGED <<parties, G, job, arg, x_pows, pc, n, t, rng, hasher, buf, dealer, secrets, dealt, cur, p, op, ret, vsRet, recon>>

\* for p in &mut parties: the next party, as generate_parties made it
NextParty ==
    /\ pc \in {"dealt", "iter_end"}
    /\ cur < n
    /\ cur' = cur + 1
    /\ p' = party_new(n, t, cur + 1).self
    /\ recon' = <<>>
    /\ pc' = "p_new"
    /\ op' = "new"
    /\ ret' = party_new(n, t, cur + 1).ret
    /\ UNCHANGED <<parties, G, job, arg, x_pows, n, t, rng, hasher, buf, dealer, secrets, dealt, wire, tamper, vsRet>>

\* p.ingest_dealer_proof((&c_vals, &z)).unwrap()
IngestDealerProof ==
    /\ pc = "p_new"
    /\ LET out == ingest_dealer_proof(p, wire.cvals, wire.z)
       IN  /\ p' = out.self
           /\ ret' = out.ret
           /\ pc' = IF IsOk(out.ret) THEN "p_proof" ELSE "panic"
    /\ op' = "ingest_dealer_proof"
    /\ UNCHANGED <<parties, G, job, arg, x_pows, n, t, rng, hasher, buf, dealer, secrets, dealt, wire, tamper, cur, vsRet, recon>>

\* p.ingest_share(&shares[p.index - 1])
IngestShare ==
    /\ pc = "p_proof"
    /\ LET out == ingest_share(p, wire.shares[p.index])
       IN  /\ p' = out.self
           /\ ret' = out.ret
    /\ pc' = "p_share"
    /\ op' = "ingest_share"
    /\ UNCHANGED <<parties, G, job, arg, x_pows, n, t, rng, hasher, buf, dealer, secrets, dealt, wire, tamper, cur, vsRet, recon>>

\* p.verify_share(&mut hasher, &mut buf)
VerifyShare ==
    /\ pc = "p_share"
    /\ LET out == verify_share(p, hasher, buf)
       IN  /\ p' = out.self
           /\ ret' = out.ret
           /\ hasher' = out.hasher
           /\ buf' = out.buf
           /\ vsRet' = [vsRet EXCEPT ![cur] = out.ret]
           /\ pc' = IF IsOk(out.ret) THEN "p_vs" ELSE "panic"
    /\ op' = "verify_share"
    /\ UNCHANGED <<parties, G, job, arg, x_pows, n, t, rng, dealer, secrets, dealt, wire, tamper, cur, recon>>

\* p.ingest_shares(&shares).unwrap()
IngestShares ==
    /\ pc = "p_vs"
    /\ LET out == ingest_shares(p, wire.shares)
       IN  /\ p' = out.self
           /\ ret' = out.ret
           /\ pc' = IF IsOk(out.ret) THEN "p_shares" ELSE "panic"
    /\ op' = "ingest_shares"
    /\ UNCHANGED <<parties, G, job, arg, x_pows, n, t, rng, hasher, buf, dealer, secrets, dealt, wire, tamper, cur, vsRet, recon>>

\* p.verify_shares(&mut hasher, &mut buf).unwrap()
VerifyShares ==
    /\ pc = "p_shares"
    /\ LET out == verify_shares(p, hasher, buf)
       IN  /\ p' = out.self
           /\ ret' = out.ret
           /\ hasher' = out.hasher
           /\ buf' = out.buf
           /\ pc' = IF IsOk(out.ret) THEN "p_vss" ELSE "panic"
    /\ op' = "verify_shares"
    /\ UNCHANGED <<parties, G, job, arg, x_pows, n, t, rng, dealer, secrets, dealt, wire, tamper, cur, vsRet, recon>>

\* What tmp.shuffle(rng) followed by take(t + 1) can leave: every arrangement
\* of min(t + 1, len) distinct entries of the validated indices
ShuffledPrefixes(validated_shares, tt) ==
    LET m == Min(tt + 1, Len(validated_shares))
        elems == {validated_shares[i] : i \in 1..Len(validated_shares)}
    IN  {s \in [1..m -> elems] : \A a, b \in 1..m : a # b => s[a] # s[b]}

\* p.select_qualified_set(&mut rng)
SelectQualifiedSetParty ==
    /\ pc = "p_vss"
    /\ \E shuffled \in ShuffledPrefixes(p.validated_shares, p.t) :
          LET out == select_qualified_set_party(p, shuffled)
          IN  /\ p' = out.self
              /\ ret' = out.ret
              /\ pc' = IF IsOk(out.ret) THEN "p_sel" ELSE "iter_end"
    /\ op' = "party_select_qualified_set"
    /\ UNCHANGED <<parties, G, job, arg, x_pows, n, t, rng, hasher, buf, dealer, secrets, dealt, wire, tamper, cur, vsRet, recon>>

\* p.qualified_set = Some(select_qualified_set(&mut rng, p.t, &p.shares, &p.validated_shares).unwrap())
SelectQualifiedSetCommon ==
    /\ pc = "p_vss"
    /\ \E shuffled \in ShuffledPrefixes(p.validated_shares, p.t) :
          LET out == select_qualified_set(p.t, p.shares, p.validated_shares, shuffled)
          IN  /\ ret' = out.ret
              /\ IF IsOk(out.ret)
                 THEN /\ p' = [p EXCEPT !.qualified_set = SomeSeq(out.qualified_set)]
                      /\ pc' = "p_sel"
                 ELSE /\ p' = p
                      /\ pc' = "iter_end"
    /\ op' = "select_qualified_set"
    /\ UNCHANGED <<parties, G, job, arg, x_pows, n, t, rng, hasher, buf, dealer, secrets, dealt, wire, tamper, cur, vsRet, recon>>

\* indices of the qualified set; compute_lagrange_bases(&indices);
\* reconstruct_secrets(&p.qualified_set, &lagrange_bases)
ReconstructSecrets ==
    /\ pc = "p_sel"
    /\ LET indices == [i \in 1..Len(p.qualified_set.v) |-> p.qualified_set.v[i].index]
           lagrange_bases == compute_lagrange_bases(indices)
           out == reconstruct_secrets(p.qualified_set, lagrange_bases)
       IN  /\ ret' = out.ret
           /\ recon' = out.out
           /\ pc' = IF IsOk(out.ret) THEN "iter_end" ELSE "panic"
    /\ op' = "reconstruct_secrets"
    /\ UNCHANGED <<parties, G, job, arg, x_pows, n, t, rng, hasher, buf, dealer, secrets, dealt, wire, tamper, cur, p, vsRet>>

\* ------------------------------------------- a party driven in any order
\* v cut or padded to len entries
Resized(v, len, fill) == [i \in 1..len |-> IF i <= Len(v) THEN v[i] ELSE fill]

\* the compressed keys of the parties other than index, in order, cut or
\* padded to cnt keys; key number bad (1-based) does not decompress
OtherKeys(nn, index, cnt, bad) ==
    [i \in 1..cnt |-> CompressedKey(IF i < index THEN i ELSE i + 1, i # bad)]

\* One party of the session, fresh from Party::new, on which the operations
\* below are then called in any order
TakeParty(index) ==
    /\ pc = "dealt"
    /\ index \in 1..n
    /\ p' = party_new(n, t, index).self
    /\ ret' = party_new(n, t, index).ret
    /\ op' = "new"
    /\ pc' = "free"
    /\ cur' = index
    /\ arg' = <<>>
    /\ UNCHANGED <<job, parties, G, x_pows, n, t, rng, hasher, buf, dealer, secrets, dealt, wire, tamper, vsRet, recon>>

\* the frame of an operation on the party at hand
FreeFrame == UNCHANGED <<job, parties, G, x_pows, n, t, rng, dealer, secrets, dealt, wire, tamper, cur, vsRet>>

\* an operation that touches neither the shared hasher nor the buffer
FreeStep(name, args, out) ==
    /\ pc = "free"
    /\ arg' = args
    /\ op' = name
    /\ ret' = out.ret
    /\ p' = out.self
    /\ pc' = IF out.ret.tag = "Panic" THEN "panic" ELSE "free"
    /\ UNCHANGED <<hasher, buf, recon>>
    /\ FreeFrame

\* an operation that is handed the shared hasher and the buffer
FreeHashStep(name, out) ==
    /\ pc = "free"
    /\ arg' = <<>>
    /\ op' = name
    /\ ret' = out.ret
    /\ p' = out.self
    /\ hasher' = out.hasher
    /\ buf' = out.buf
    /\ pc' = IF out.ret.tag = "Panic" THEN "panic" ELSE "free"
    /\ UNCHANGED recon
    /\ FreeFrame

\* an operation that returns the secrets and leaves the party as it is
FreeOutStep(name, args, out) ==
    /\ pc = "free"
    /\ arg' = args
    /\ op' = name
    /\ ret' = out.ret
    /\ recon' = out.out
    /\ pc' = IF out.ret.tag = "Panic" THEN "panic" ELSE "free"
    /\ UNCHANGED <<p, hasher, buf>>
    /\ FreeFrame

\* Party::new(.., n, t, index), then ingest_public_keys on cnt keys of the others
IngestPublicKeys(nn, tt, index, cnt, bad) ==
    /\ pc = "start"
    /\ IsOk(party_new(nn, tt, index).ret)
    /\ arg' = OtherKeys(nn, index, cnt, bad)
    /\ pc' = "probed"
    /\ op' = "ingest_public_keys"
    /\ cur' = index
    /\ ret' = party_ingest_public_keys(party_new(nn, tt, index).self,
                                       OtherKeys(nn, index, cnt, bad)).ret
    /\ p' = party_ingest_public_keys(party_new(nn, tt, index).self,
                                     OtherKeys(nn, index, cnt, bad)).self
    /\ UNCHANGED <<job, parties, G, x_pows, n, t, rng, hasher, buf, dealer, secrets, dealt, wire, tamper, vsRet, recon>>

FreeIngestShare == FreeStep("ingest_share", <<>>, ingest_share(p, wire.shares[p.index]))

\* proofs whose lengths are those asked for, or off by one
FreeIngestDealerProof(lc, lz) ==
    /\ lc \in (n - 1)..(n + 1)
    /\ lz \in p.t..(p.t + 2)
    /\ FreeStep("ingest_dealer_proof",
             <<Resized(wire.cvals, lc, ZeroBuf), Resized(wire.z, lz, 0)>>,
             ingest_dealer_proof(p, Resized(wire.cvals, lc, ZeroBuf), Resized(wire.z, lz, 0)))

FreeIngestShares(len) ==
    /\ len \in (n - 1)..(n + 1)
    /\ FreeStep("ingest_shares", <<>>, ingest_shares(p, Resized(wire.shares, len, wire.shares[1])))

FreeVerifyShare == FreeHashStep("verify_share", verify_share(p, hasher, buf))

FreeVerifyShares == FreeHashStep("verify_shares", verify_shares(p, hasher, buf))

FreeSelectParty ==
    \E shuffled \in ShuffledPrefixes(p.validated_shares, p.t) :
        FreeStep("party_select_qualified_set", <<>>, select_qualified_set_party(p, shuffled))

\* p.qualified_set = Some(select_qualified_set(..)?)
CommonSelectStore(self, got) ==
    [ret |-> got.ret,
     self |-> IF IsOk(got.ret) THEN [self EXCEPT !.qualified_set = SomeSeq(got.qualified_set)]
              ELSE self]

FreeSelectCommon ==
    \E shuffled \in ShuffledPrefixes(p.validated_shares, p.t) :
        FreeStep("select_qualified_set", <<>>,
                 CommonSelectStore(p, select_qualified_set(p.t, p.shares, p.validated_shares,
                                                           shuffled)))

\* the Lagrange bases of the indices of the qualified set at hand
LambdasOf(qualified_set) ==
    compute_lagrange_bases([i \in 1..Len(qualified_set.v) |-> qualified_set.v[i].index])

FreeReconstructParty ==
    FreeOutStep("party_reconstruct_secrets", LambdasOf(p.qualified_set),
                party_reconstruct_secrets(p, LambdasOf(p.qualified_set)))

FreeReconstructCommon ==
    FreeOutStep("reconstruct_secrets", LambdasOf(p.qualified_set),
                reconstruct_secrets(p.qualified_set, LambdasOf(p.qualified_set)))

NextOps ==
    \/ \E nn \in 1..MaxN, tt \in 0..MaxN : Begin(nn, tt, 0)
    \/ GenerateParties
    \/ DealerNew
    \/ Deal(MaxK)
    \/ \E index \in 1..MaxN : TakeParty(index)
    \/ \E nn \in 1..MaxN, tt \in 0..MaxN, index \in 0..MaxN, cnt \in 0..MaxN, bad \in 0..1 :
          IngestPublicKeys(nn, tt, index, cnt, bad)
    \/ FreeIngestShare
    \/ \E lc \in 0..(MaxN + 1), lz \in 0..(MaxN + 1) : FreeIngestDealerProof(lc, lz)
    \/ \E len \in 0..(MaxN + 1) : FreeIngestShares(len)
    \/ FreeVerifyShare
    \/ FreeVerifyShares
    \/ FreeSelectParty
    \/ FreeSelectCommon
    \/ FreeReconstructParty
    \/ FreeReconstructCommon

SpecOps == Init /\ [][NextOps]_vars

Next ==
    \/ \E nn \in 0..MaxN, tt \in 0..MaxN, index \in 0..(MaxN + 1) : PartyNew(nn, tt, index)
    \/ \E nn \in 1..MaxN, tt \in 0..MaxN, seed \in 0..MaxSeed : Begin(nn, tt, seed)
    \/ GenerateParties
    \/ DealerNew
    \/ \E kk \in 1..MaxK : Deal(kk)
    \/ \E kk \in 1..MaxK : GenerateSharesBatched(kk)
    \/ \E i \in 0..(MaxN + 1), j \in 0..MaxK : TamperShare(i, j)
    \/ \E i \in 0..(MaxN + 1) : TamperAnotherShare(i)
    \/ \E i \in 0..(MaxN + 1) : TamperCommitment(i)
    \/ \E j \in 0..MaxN, delta \in 1..(Q - 1) : TamperZ(j, delta)
    \/ NextParty
    \/ IngestDealerProof
    \/ IngestShare
    \/ VerifyShare
    \/ IngestShares
    \/ VerifyShares
    \/ SelectQualifiedSetParty
    \/ SelectQualifiedSetCommon
    \/ ReconstructSecrets

Spec == Init /\ [][Next]_vars

\* --------------------------------- a party handed one delivery after another
\* What the caller holds for the next ingest: the dealer's output as it is, or
\* with the first scalar of share i raised by one, or with a byte of
\* commitment i flipped (0-based i).  The party is not touched.
Delivery(kind, i) ==
    IF kind = "share" THEN [dealt EXCEPT !.shares[i + 1][1] = Add(@, 1)]
    ELSE IF kind = "commitment" THEN [dealt EXCEPT !.cvals[i + 1].flip = 1]
    ELSE dealt

DeliveryKinds == {"none", "share", "commitment"}

Redeliver(kind, i) ==
    /\ pc = "free"
    /\ i < n
    /\ kind = "none" => i = 0
    /\ wire' = Delivery(kind, i)
    /\ wire' # wire
    /\ tamper' = [kind |-> kind, i |-> i, j |-> 0]
    /\ UNCHANGED <<job, parties, G, arg, x_pows, pc, n, t, rng, hasher, buf, dealer, secrets,
                   dealt, cur, p, op, ret, vsRet, recon>>

\* parties[0] of a b_pi_la session: ingest_dealer_proof, ingest_shares,
\* verify_shares and select_qualified_set called in any order, on whatever
\* the caller holds at the time
NextR ==
    \/ \E nn \in 1..MaxN : Begin(nn, (nn - 1) \div 2, 0)
    \/ GenerateParties
    \/ DealerNew
    \/ Deal(MaxK)
    \/ TakeParty(1)
    \/ \E kind \in DeliveryKinds : \E i \in 0..1 : Redeliver(kind, i)
    \/ FreeIngestDealerProof(n, t + 1)
    \/ FreeIngestShares(n)
    \/ FreeVerifyShares
    \/ FreeSelectParty

SpecR == Init /\ [][NextR]_vars

\* ------------------------------------------------------- functions on their own
\* The functions of common called directly, as the unit tests of the library
\* call them: the arguments are drawn at the start, one step applies the
\* function, and the result is kept next to the arguments.

\* a set of indices as the Vec<usize> listing it in ascending order
RECURSIVE Ascending(_)
Ascending(S) ==
    IF S = {} THEN <<>>
    ELSE LET m == CHOOSE x \in S : \A y \in S : x <= y
         IN  <<m>> \o Ascending(S \ {m})

\* every state of the PRNG
RngStates == 0..63

\* cnt polynomials of len coefficients each, drawn one after the other
RECURSIVE sample_many(_, _, _)
sample_many(cnt, len, rng_) ==
    IF cnt = 0 THEN [polys |-> <<>>, rng |-> rng_]
    ELSE LET first == sample(len - 1, rng_)
             rest == sample_many(cnt - 1, len, first.rng)
         IN  [polys |-> <<first.coefficients>> \o rest.polys, rng |-> rest.rng]

NoArgs ==
    [fn |-> "none", s |-> <<>>, f |-> <<>>, r |-> <<>>, f_polys |-> <<>>, d_vals |-> <<>>,
     z |-> <<>>, x |-> 0, nn |-> 0, tt |-> 0, secrets |-> <<>>, rng |-> 0,
     from |-> 0, to |-> 0, table |-> "none", private_keys |-> <<>>, enc |-> <<>>,
     public_keys |-> <<>>, gens |-> <<>>, overflow_checks |-> FALSE]

\* compute_lagrange_bases(S) next to a polynomial of |S| coefficients
LagrangeArgs ==
    {[NoArgs EXCEPT !.fn = "compute_lagrange_bases", !.s = Ascending(S), !.f = f] :
        <<S, f>> \in UNION {{<<S, f>> : f \in [1..Cardinality(S) -> Scalars]} :
                               S \in {S \in SUBSET (1..MaxN) :
                                         Cardinality(S) \in 1..(MaxN - 1)}}}

\* r.compute_z(f_polys, d_vals) on polynomials of len coefficients
ComputeZArgsOf(len, kk, seed) ==
    LET r == sample(len - 1, seed)
        fs == sample_many(kk, len, r.rng)
        ds == random_scalars(fs.rng, kk)
    IN  [NoArgs EXCEPT !.fn = "compute_z", !.r = r.coefficients, !.f_polys = fs.polys,
                       !.d_vals = ds.vals]

ComputeZArgs ==
    {ComputeZArgsOf(len, kk, seed) : len \in 1..MaxN, kk \in 1..MaxK, seed \in RngStates}

\* generate_shares_batched(n, t, &gen_powers(n, t), &secrets)
SharesBatchedArgs ==
    {[NoArgs EXCEPT !.fn = "generate_shares_batched", !.nn = nn, !.tt = tt,
                    !.secrets = random_scalars(seed, kk).vals,
                    !.rng = random_scalars(seed, kk).rng] :
        <<nn, tt, kk, seed>> \in {q \in (1..MaxN) \X (0..MaxN) \X (1..MaxK) \X RngStates :
                                     q[2] < q[1]}}

\* gen_powers(n, t)
GenPowersArgs ==
    {[NoArgs EXCEPT !.fn = "gen_powers", !.nn = nn, !.tt = tt] :
        <<nn, tt>> \in {q \in (1..MaxN) \X (0..MaxN) : q[2] < q[1]}}

\* f.evaluate_range_precomp(&gen_powers(n, t), from, to), f of degree t
RangePrecompArgs ==
    {[NoArgs EXCEPT !.fn = "evaluate_range_precomp", !.nn = q[1], !.tt = q[2],
                    !.from = q[3], !.to = q[4], !.f = sample(q[2], q[5]).coefficients] :
        q \in {q \in (1..MaxN) \X (0..MaxN) \X (1..MaxN) \X (1..MaxN) \X (0..MaxSeed) :
                  q[2] < q[1] /\ q[3] <= q[4] /\ q[4] <= q[1]}}

\* gen_encrypted_shares_batch: n private keys and k secrets drawn from the
\* rng, then generate_encrypted_shares_batched(t, &x_pows, &public_keys, &secrets)
EncryptedArgsOf(nn, tt, kk, seed, kind) ==
    LET keys == random_scalars(seed, nn)
        secs == random_scalars(keys.rng, kk)
    IN  [NoArgs EXCEPT !.fn = "generate_encrypted_shares_batched", !.nn = nn, !.tt = tt,
                       !.table = kind, !.private_keys = keys.vals, !.secrets = secs.vals,
                       !.rng = secs.rng]

EncryptedArgs ==
    {EncryptedArgsOf(q[1], q[2], q[3], q[4], q[5]) :
        q \in {q \in (1..MaxN) \X (0..MaxN) \X (1..MaxK) \X (0..MaxSeed) \X TableKinds :
                  q[2] < q[1]}}

\* Dealer::new(n, t, &public_keys): the keys of cnt parties, drawn from the rng
\* as Party::new draws them and compressed; those numbered in bad are 32
\* bytes that are no point
DealerNewArgsOf(nn, tt, cnt, seed, bad) ==
    [NoArgs EXCEPT !.fn = "dealer_new", !.nn = nn, !.tt = tt,
                   !.public_keys =
                       [i \in 1..cnt |->
                           CompressedKey(mul_base(random_scalars(seed, cnt).vals[i]), i \notin bad)]]

DealerNewArgs ==
    UNION {{DealerNewArgsOf(nn, tt, cnt, seed, bad) :
               nn \in 0..MaxN, tt \in 0..MaxN, seed \in 0..MaxSeed, bad \in SUBSET (1..cnt)} :
           cnt \in 0..(MaxN + 1)}

\* pi_p end_to_end up to the deal: G, g1, g2, g3 = RistrettoPoint::random,
\* the private keys of generate_parties, secret = Scalar::random
PiPDealArgsOf(nn, tt, gens, keys, secret) ==
    [NoArgs EXCEPT !.fn = "pi_p_deal_secret", !.nn = nn, !.tt = tt, !.gens = gens.vals,
                   !.private_keys = keys.vals,
                   !.public_keys = [i \in 1..nn |-> compress(PointMul(keys.vals[i], gens.vals[1]))],
                   !.x = secret.val, !.rng = secret.rng]

\* the seeds whose four points are no identity and differ from each other
PiPSeeds ==
    {seed \in RngStates :
        \A a, b \in 1..4 : /\ random_points(seed, 4).vals[a] # IdentityPoint
                            /\ (a # b => random_points(seed, 4).vals[a] # random_points(seed, 4).vals[b])}

PiPDealArgs ==
    {PiPDealArgsOf(nn, (nn - 1) \div 2, random_points(seed, 4),
                   random_scalars(random_points(seed, 4).rng, nn),
                   random_scalar(random_scalars(random_points(seed, 4).rng, nn).rng)) :
        nn \in 1..MaxN, seed \in PiPSeeds}

\* one secret dealt by pi_la's deal_secret and by b_pi_la's deal with k = 1
\* from the same f and r, for n parties; from is the number of the share
\* altered before verify_shares sees it (0 for none), table the power table
\* handed to pi_la's verify_shares
SingleBatchedArgs ==
    {[NoArgs EXCEPT !.fn = "single_vs_batched", !.nn = q[1], !.tt = (q[1] - 1) \div 2,
                    !.x = random_scalar(q[2]).val, !.rng = random_scalar(q[2]).rng,
                    !.table = q[3], !.from = q[4]] :
        q \in {q \in (1..MaxN) \X (0..MaxSeed) \X TableKinds \X (0..MaxN) : q[4] <= q[1]}}

\* compute_d_powers(k, &d)
DPowersArgs ==
    {[NoArgs EXCEPT !.fn = "compute_d_powers", !.nn = k, !.x = d] :
        k \in 0..(MaxK + 3), d \in Scalars}

\* a commitment vector of t + 1 points, t up to MaxK, next to a party index
\* and the build's overflow checks
CommitmentSideArgs ==
    {[NoArgs EXCEPT !.fn = "commitment_side", !.nn = i, !.gens = cvals, !.overflow_checks = oc] :
        <<i, cvals, oc>> \in UNION {(1..MaxN) \X [1..len -> {Point(dl) : dl \in Scalars}] \X BOOLEAN :
                                      len \in 1..(MaxK + 1)}}

\* a polynomial of up to MaxK coefficients, none included, next to an index
\* of the width of usize and the build's overflow checks
CoefAtArgs ==
    {[NoArgs EXCEPT !.fn = "coef_at", !.f = coefs, !.x = index, !.overflow_checks = oc] :
        <<coefs, index, oc>> \in UNION {[1..len -> Scalars] \X (0..(UsizeModulus - 1)) \X BOOLEAN :
                                          len \in 0..MaxK}}

InitFn ==
    /\ pc = "fn"
    /\ arg \in LagrangeArgs \cup ComputeZArgs \cup SharesBatchedArgs \cup GenPowersArgs
                \cup RangePrecompArgs \cup EncryptedArgs \cup DealerNewArgs
                \cup DPowersArgs \cup PiPDealArgs \cup SingleBatchedArgs
                \cup CommitmentSideArgs \cup CoefAtArgs
    /\ n = 0
    /\ t = 0
    /\ x_pows = <<>>
    /\ rng = 0
    /\ hasher = <<>>
    /\ buf = ZeroBuf
    /\ dealer = NoDealer
    /\ secrets = <<>>
    /\ dealt = NoDeal
    /\ wire = NoDeal
    /\ tamper = NoTamper
    /\ cur = 0
    /\ p = NoParty
    /\ op = "none"
    /\ ret = NoRet
    /\ vsRet = <<>>
    /\ recon = <<>>
    /\ G = IdentityPoint
    /\ parties = <<>>
    /\ job = NoJob

FnFrame ==
    UNCHANGED <<job, parties, G, n, t, x_pows, rng, hasher, buf, dealer, secrets, dealt, wire, tamper,
                cur, p, vsRet>>

\* let lagrange_bases = compute_lagrange_bases(&indices)
ApplyLagrangeBases ==
    /\ pc = "fn"
    /\ arg.fn = "compute_lagrange_bases"
    /\ op' = "compute_lagrange_bases"
    /\ recon' = compute_lagrange_bases(arg.s)
    /\ ret' = OkUnit
    /\ pc' = "fn_done"
    /\ UNCHANGED <<job, arg>>
    /\ FnFrame

\* z.compute_z(&f_polys, &d_vals), z holding r before the call
ApplyComputeZ ==
    /\ pc = "fn"
    /\ arg.fn = "compute_z"
    /\ op' = "compute_z"
    /\ recon' = compute_z(arg.r, arg.f_polys, arg.d_vals)
    /\ arg' = [arg EXCEPT !.z = compute_z(arg.r, arg.f_polys, arg.d_vals)]
    /\ ret' = OkUnit
    /\ pc' = "z_done"
    /\ FnFrame

\* Polynomial::compute_r_eval(&z.evaluate(x), &[f_j.evaluate(x)], &d_vals)
ApplyComputeREval(x) ==
    /\ pc = "z_done"
    /\ op' = "compute_r_eval"
    /\ arg' = [arg EXCEPT !.x = x]
    /\ recon' = <<compute_r_eval(evaluate(arg.z, x),
                                 [j \in 1..Len(arg.f_polys) |-> evaluate(arg.f_polys[j], x)],
                                 arg.d_vals)>>
    /\ ret' = OkUnit
    /\ pc' = "fn_done"
    /\ FnFrame

SharesBatchedOut(out) ==
    /\ ret' = out.ret
    /\ recon' = <<out.f_polynomials, out.f_evals>>

\* generate_shares_batched on the table of gen_powers(n, t)
ApplyGenerateSharesBatched ==
    /\ pc = "fn"
    /\ arg.fn = "generate_shares_batched"
    /\ op' = "generate_shares_batched"
    /\ SharesBatchedOut(generate_shares_batched(arg.nn, arg.tt, gen_powers(arg.nn, arg.tt),
                                                arg.secrets, arg.rng))
    /\ pc' = "fn_done"
    /\ UNCHANGED <<job, arg>>
    /\ FnFrame

\* let x_pows = gen_powers(n, t)
ApplyGenPowers ==
    /\ pc = "fn"
    /\ arg.fn = "gen_powers"
    /\ op' = "gen_powers"
    /\ recon' = gen_powers(arg.nn, arg.tt)
    /\ ret' = OkUnit
    /\ pc' = "fn_done"
    /\ UNCHANGED <<job, arg>>
    /\ FnFrame

RangePrecompOut(out) ==
    /\ ret' = out.ret
    /\ recon' = out.evals

\* f.evaluate_range_precomp(&x_pows, from, to) on the table of gen_powers(n, t)
ApplyEvaluateRangePrecomp ==
    /\ pc = "fn"
    /\ arg.fn = "evaluate_range_precomp"
    /\ op' = "evaluate_range_precomp"
    /\ RangePrecompOut(evaluate_range_precomp(arg.f, gen_powers(arg.nn, arg.tt),
                                              arg.from, arg.to))
    /\ pc' = "fn_done"
    /\ UNCHANGED <<job, arg>>
    /\ FnFrame

\* the public keys of the private keys: RistrettoPoint::mul_base(private_key)
PublicKeysOf(private_keys) == [i \in 1..Len(private_keys) |-> mul_base(private_keys[i])]

EncryptedOut(out) ==
    /\ ret' = out.ret
    /\ recon' = out.encrypted_shares
    /\ arg' = [arg EXCEPT !.f_polys = out.f_polynomials, !.enc = out.encrypted_shares]
    /\ pc' = IF IsOk(out.ret) THEN "enc_done" ELSE "fn_done"

\* generate_encrypted_shares_batched(t, &x_pows, &public_keys, &secrets)
ApplyGenerateEncryptedSharesBatched ==
    /\ pc = "fn"
    /\ arg.fn = "generate_encrypted_shares_batched"
    /\ op' = "generate_encrypted_shares_batched"
    /\ EncryptedOut(generate_encrypted_shares_batched(
                        arg.tt, TableOf(arg.table, arg.nn, arg.tt),
                        PublicKeysOf(arg.private_keys), arg.secrets, arg.rng))
    /\ FnFrame

\* decrypt_share(private_key, &encrypted_share.decompress().unwrap()) for every share
DecryptedShares(private_keys, enc) ==
    [i \in 1..Min(Len(enc), Len(private_keys)) |->
        [j \in 1..Len(enc[i]) |-> decrypt_share(private_keys[i], decompress(enc[i][j]).v)]]

ReconstructExponentOut(selected) ==
    /\ arg' = [arg EXCEPT !.s = [i \in 1..Len(selected.qualified_set) |->
                                    selected.qualified_set[i].index]]
    /\ ret' = reconstruct_secrets_exponent(SomeSeq(selected.qualified_set),
                                           LambdasOf(SomeSeq(selected.qualified_set))).ret
    /\ recon' = reconstruct_secrets_exponent(SomeSeq(selected.qualified_set),
                                             LambdasOf(SomeSeq(selected.qualified_set))).out

\* the shares decrypted, a qualified set selected among all of 0..n,
\* reconstruct_secrets_exponent(&q, &lagrange_bases)
ApplyDecryptAndReconstruct ==
    /\ pc = "enc_done"
    /\ op' = "reconstruct_secrets_exponent"
    /\ \E shuffled \in ShuffledPrefixes([i \in 1..arg.nn |-> i - 1], arg.tt) :
          ReconstructExponentOut(
              select_qualified_set(arg.tt, SomeSeq(DecryptedShares(arg.private_keys, arg.enc)),
                                   [i \in 1..arg.nn |-> i - 1], shuffled))
    /\ pc' = "fn_done"
    /\ FnFrame

\* Dealer::new(n, t, &public_keys)
ApplyDealerNew ==
    /\ pc = "fn"
    /\ arg.fn = "dealer_new"
    /\ op' = "dealer_new"
    /\ ret' = dealer_new_keys(arg.nn, arg.tt, arg.public_keys).ret
    /\ recon' = dealer_new_keys(arg.nn, arg.tt, arg.public_keys).self
    /\ pc' = "fn_done"
    /\ UNCHANGED <<job, arg>>
    /\ FnFrame

\* let d_vals = compute_d_powers(k, &d)
\* usize subtraction: a difference below zero panics in a build with overflow
\* checks and wraps in one without
usize_sub(a, b, overflow_checks) ==
    [panic |-> overflow_checks /\ a < b,
     v |-> (a + UsizeModulus - b) % UsizeModulus]

\* common Polynomial::coef_at: if index < self.coefficients.len() - 1
\* { Some(self.coefficients[index]) } else { None }; the indexing panics
\* past the end of the vector
coef_at(coefficients, index, overflow_checks) ==
    IF usize_sub(Len(coefficients), 1, overflow_checks).panic
    THEN [panic |-> TRUE, some |-> FALSE, v |-> 0]
    ELSE IF index < usize_sub(Len(coefficients), 1, overflow_checks).v
    THEN IF index < Len(coefficients)
         THEN [panic |-> FALSE, some |-> TRUE, v |-> coefficients[index + 1]]
         ELSE [panic |-> TRUE, some |-> FALSE, v |-> 0]
    ELSE [panic |-> FALSE, some |-> FALSE, v |-> 0]

\* pi_p Polynomial::coef_at: if index < self.len() { Some(self.coefficients[index]) } else { None }
pi_p_coef_at(coefficients, index) ==
    IF index < Len(coefficients)
    THEN [panic |-> FALSE, some |-> TRUE, v |-> coefficients[index + 1]]
    ELSE [panic |-> FALSE, some |-> FALSE, v |-> 0]

ApplyCoefAt ==
    /\ pc = "fn"
    /\ arg.fn = "coef_at"
    /\ op' = "coef_at"
    /\ ret' = OkUnit
    /\ recon' = [common |-> coef_at(arg.f, arg.x, arg.overflow_checks),
                 pi_p |-> pi_p_coef_at(arg.f, arg.x)]
    /\ pc' = "fn_done"
    /\ UNCHANGED arg
    /\ FnFrame

\* b_pedersen verify_share's b: cvals.iter().enumerate().skip(1) folded from cvals[0]
b_pedersen_commitment_side(cvals, index, overflow_checks) ==
    [panic |-> pow_panics(cvals, index, 1, overflow_checks),
     v |-> PointAdd(cvals[1], power_sum(cvals, index, 1, overflow_checks))]

\* b_feldman verify_share's b: cvals.par_iter().enumerate() reduced from the identity
b_feldman_commitment_side(cvals, index, overflow_checks) ==
    [panic |-> pow_panics(cvals, index, 0, overflow_checks),
     v |-> power_sum(cvals, index, 0, overflow_checks)]

ApplyCommitmentSide ==
    /\ pc = "fn"
    /\ arg.fn = "commitment_side"
    /\ op' = "commitment_side"
    /\ ret' = OkUnit
    /\ recon' = [b_pedersen |-> b_pedersen_commitment_side(arg.gens, arg.nn, arg.overflow_checks),
                 b_feldman |-> b_feldman_commitment_side(arg.gens, arg.nn, arg.overflow_checks)]
    /\ pc' = "fn_done"
    /\ UNCHANGED arg
    /\ FnFrame

ApplyComputeDPowers ==
    /\ pc = "fn"
    /\ arg.fn = "compute_d_powers"
    /\ op' = "compute_d_powers"
    /\ ret' = OkUnit
    /\ recon' = compute_d_powers(arg.nn, arg.x)
    /\ pc' = "fn_done"
    /\ UNCHANGED arg
    /\ FnFrame

\* Dealer::new(g1, g2, g3, N, T, &public_keys).unwrap() and
\* dealer.deal_secret(&mut rng, &mut hasher, &mut buf, &secret)
PiPDealOut(made, out) ==
    /\ op' = "pi_p_deal_secret"
    /\ ret' = out.ret
    /\ recon' = [dealer_new |-> made.ret, dealer |-> out.self, shares |-> out.shares,
                  g |-> out.g, cvals |-> out.cvals, z |-> out.z, d |-> out.d]
    /\ pc' = "fn_done"
    /\ UNCHANGED arg
    /\ FnFrame

PiPDealMade(made) ==
    PiPDealOut(made, pi_p_deal_secret(made.self, arg.rng, hasher, buf, arg.x))

ApplyPiPDealSecret ==
    /\ pc = "fn"
    /\ arg.fn = "pi_p_deal_secret"
    /\ PiPDealMade(pi_p_dealer_new(arg.gens[2], arg.gens[3], arg.gens[4], arg.nn, arg.tt,
                                   arg.public_keys))

\* the scalars with the one numbered bad (1-based, 0 for none) raised by one
AlteredAt(shares, bad) ==
    [i \in 1..Len(shares) |-> IF i = bad THEN Add(shares[i], 1) ELSE shares[i]]

\* Party::new(.., n, t, index), then ingest_dealer_proof and ingest_shares
PartyHolding(nn, tt, index, cvals, z, shares) ==
    ingest_shares(ingest_dealer_proof(party_new(nn, tt, index).self, cvals, z).self, shares).self

\* each variant's verification run on the other variant's deal: b_pi_la's
\* verify_share of every party on pi_la's shares and proof, b_pi_la's
\* verify_shares on them, pi_la's verify_shares on b_pi_la's shares and proof
SvbOut(single, batched) ==
    /\ op' = "single_vs_batched"
    /\ ret' = OkUnit
    /\ recon' =
          [single |-> [shares |-> single.shares, cvals |-> single.cvals, z |-> single.z],
           batched |-> [shares |-> batched.shares, cvals |-> batched.cvals, z |-> batched.z],
           b_share |->
               [i \in 1..arg.nn |->
                   verify_share(
                       ingest_share(
                           ingest_dealer_proof(party_new(arg.nn, arg.tt, i).self,
                                               single.cvals, single.z).self,
                           <<single.shares[i]>>).self,
                       hasher, buf).ret],
           b_shares |->
               verify_shares(
                   PartyHolding(arg.nn, arg.tt, 1, single.cvals, single.z,
                                [i \in 1..arg.nn |-> <<AlteredAt(single.shares, arg.from)[i]>>]),
                   hasher, buf),
           la_shares |->
               pi_la_verify_shares(
                   PartyHolding(arg.nn, arg.tt, 1, batched.cvals, batched.z,
                                AlteredAt([i \in 1..arg.nn |-> batched.shares[i][1]], arg.from)),
                   hasher, buf, TableOf(arg.table, arg.nn, arg.tt))]
    /\ pc' = "fn_done"
    /\ UNCHANGED arg
    /\ FnFrame

\* b_pi_la's deal from f and r: generate_shares after the sampling,
\* generate_proof after r is there
SvbGen(self, polys, gen) ==
    SvbOut(pi_la_deal_secret_sampled(self, polys,
                                     evaluate_two_range(polys.f, polys.r, 1, self.public_keys),
                                     hasher, buf),
           deal_result(gen,
                       generate_proof_r(self, [coefficients |-> polys.r, rng |-> polys.rng],
                                        hasher, buf, [i \in 1..self.public_keys |-> ZeroBuf], 1,
                                        <<polys.f>>, gen.f_evals)))

SvbPolys(self, polys) ==
    SvbGen(self, polys,
           generate_shares_evals([ret |-> OkUnit, polys |-> <<polys.f>>, rng |-> polys.rng],
                                 self.public_keys))

ApplySingleVsBatched ==
    /\ pc = "fn"
    /\ arg.fn = "single_vs_batched"
    /\ SvbPolys(dealer_new(arg.nn, arg.tt, arg.nn).self,
                sample_two_set_f0(arg.tt, arg.x, arg.rng))

NextFn ==
    \/ ApplyCoefAt
    \/ ApplyCommitmentSide
    \/ ApplySingleVsBatched
    \/ ApplyPiPDealSecret
    \/ ApplyComputeDPowers
    \/ ApplyDealerNew
    \/ ApplyGenPowers
    \/ ApplyGenerateEncryptedSharesBatched
    \/ ApplyDecryptAndReconstruct
    \/ ApplyEvaluateRangePrecomp
    \/ ApplyLagrangeBases
    \/ ApplyComputeZ
    \/ \E x \in Scalars : ApplyComputeREval(x)
    \/ ApplyGenerateSharesBatched

SpecFn == InitFn /\ [][NextFn]_vars

\* ---------------------------------------------------- the session of Pi_S
\* pi_s end_to_end: G = mul_base(random_scalar(rng)) and the power table,
\* that of gen_powers(N, T) or one laid out as the evaluations read it
SBegin(nn, tt, seed, kind) ==
    /\ pc = "start"
    /\ pc' = "s_powers"
    /\ n' = nn
    /\ t' = tt
    /\ G' = mul_base(random_scalar(seed).val)
    /\ rng' = random_scalar(seed).rng
    /\ x_pows' = TableOf(kind, nn, tt)
    /\ op' = "gen_powers"
    /\ ret' = OkUnit
    /\ UNCHANGED <<parties, job, arg, hasher, buf, dealer, secrets, dealt, wire, tamper, cur, p, vsRet, recon>>

\* generate_parties(&G, &mut rng, N, T)
SGenerateParties ==
    /\ pc = "s_powers"
    /\ op' = "generate_parties"
    /\ ret' = pi_s_generate_parties(G, rng, n, t).ret
    /\ parties' = pi_s_generate_parties(G, rng, n, t).parties
    /\ rng' = pi_s_generate_parties(G, rng, n, t).rng
    /\ pc' = IF IsOk(pi_s_generate_parties(G, rng, n, t).ret) THEN "s_parties" ELSE "panic"
    /\ UNCHANGED <<G, job, arg, x_pows, n, t, hasher, buf, dealer, secrets, dealt, wire, tamper, cur, p, vsRet, recon>>

\* parties.iter().map(|party| party.public_key.0).collect()
CompressedKeysOf(ps) == [i \in 1..Len(ps) |-> ps[i].public_key[1]]

\* Dealer::new(N, T, &public_keys).unwrap()
SDealerNew ==
    /\ pc = "s_parties"
    /\ op' = "dealer_new"
    /\ ret' = pi_s_dealer_new(n, t, CompressedKeysOf(parties)).ret
    /\ dealer' = pi_s_dealer_new(n, t, CompressedKeysOf(parties)).self
    /\ pc' = IF IsOk(pi_s_dealer_new(n, t, CompressedKeysOf(parties)).ret) THEN "s_keys" ELSE "panic"
    /\ cur' = 1
    /\ UNCHANGED <<parties, G, job, arg, x_pows, n, t, rng, hasher, buf, secrets, dealt, wire, tamper, p, vsRet, recon>>

\* the step from one party of a loop to the next, or to what follows the loop
LoopStep(here, after) ==
    IF cur < n THEN pc' = here /\ cur' = cur + 1 ELSE pc' = after /\ cur' = 1

\* one call on the party at work that the session unwraps
SPartyStep(name, out, next_pc) ==
    /\ op' = name
    /\ ret' = out.ret
    /\ parties' = [parties EXCEPT ![cur] = out.self]
    /\ IF IsOk(out.ret) THEN pc' = next_pc /\ cur' = cur ELSE pc' = "panic" /\ cur' = cur

\* public_keys.iter().filter(|pk| &party.public_key.0 != *pk): the keys that
\* differ from the party's own
FilterOwn(keys, own) == SelectSeq(keys, LAMBDA pk : pk # own)

\* party.ingest_public_keys(&public_keys).unwrap(), for each party in turn
SIngestPublicKeys ==
    /\ pc = "s_keys"
    /\ op' = "ingest_public_keys"
    /\ LET out == pi_s_ingest_public_keys(parties[cur],
                      FilterOwn(CompressedKeysOf(parties), parties[cur].public_key[1]))
       IN  /\ ret' = out.ret
           /\ parties' = [parties EXCEPT ![cur] = out.self]
           /\ IF IsOk(out.ret) THEN LoopStep("s_keys", "s_deal") ELSE pc' = "panic" /\ cur' = cur
    /\ UNCHANGED <<G, job, arg, x_pows, n, t, rng, hasher, buf, dealer, secrets, dealt, wire, tamper, p, vsRet, recon>>

\* secret = random_scalar(&mut rng); dealer.deal_secret(&mut rng, &mut hasher,
\* &mut buf, &xpows, &secret)
SDealOut(secret, out) ==
    /\ op' = "deal_secret"
    /\ ret' = out.ret
    /\ secrets' = <<secret>>
    /\ dealer' = out.self
    /\ rng' = out.rng
    /\ hasher' = out.hasher
    /\ buf' = out.buf
    /\ dealt' = [encrypted_shares |-> out.encrypted_shares, d |-> out.d, z |-> out.z]
    /\ wire' = [encrypted_shares |-> out.encrypted_shares, d |-> out.d, z |-> out.z]
    /\ pc' = IF IsOk(out.ret) THEN "s_dealt" ELSE "panic"

SDealDrawn(drawn) ==
    SDealOut(drawn.val, pi_s_deal_secret(dealer, drawn.rng, hasher, buf, x_pows, drawn.val))

SDeal ==
    /\ pc = "s_deal"
    /\ SDealDrawn(random_scalar(rng))
    /\ UNCHANGED <<parties, G, job, arg, x_pows, n, t, tamper, cur, p, vsRet, recon>>

\* one encrypted share is replaced by another point on its way to the parties
STamperEncryptedShare(i, dl) ==
    /\ pc = "s_dealt"
    /\ tamper.kind = "none"
    /\ i \in 1..Len(wire.encrypted_shares)
    /\ compress(Point(dl)) # wire.encrypted_shares[i]
    /\ wire' = [wire EXCEPT !.encrypted_shares[i] = compress(Point(dl))]
    /\ tamper' = [kind |-> "encrypted_share", i |-> i, j |-> 0]
    /\ op' = "tamper"
    /\ ret' = OkUnit
    /\ UNCHANGED <<parties, G, job, arg, x_pows, n, t, rng, hasher, buf, dealer, secrets, dealt, cur, p, pc, vsRet, recon>>

\* p.ingest_encrypted_shares(&encrypted_shares).unwrap()
SIngestEncryptedShares ==
    /\ pc \in {"s_dealt", "s_enc"}
    /\ SPartyStep("ingest_encrypted_shares",
                  pi_s_ingest_encrypted_shares(parties[cur], wire.encrypted_shares), "s_proof")
    /\ UNCHANGED <<G, job, arg, x_pows, n, t, rng, hasher, buf, dealer, secrets, dealt, wire, tamper, p, vsRet, recon>>

\* p.ingest_dealer_proof(d, z.clone()).unwrap()
SIngestDealerProof ==
    /\ pc = "s_proof"
    /\ SPartyStep("ingest_dealer_proof",
                  pi_s_ingest_dealer_proof(parties[cur], wire.d, wire.z), "s_verify")
    /\ UNCHANGED <<G, job, arg, x_pows, n, t, rng, hasher, buf, dealer, secrets, dealt, wire, tamper, p, vsRet, recon>>

\* res = p.verify_encrypted_shares(&mut hasher, &mut buf, &xpows).unwrap();
\* assert!(res).  Where a share was replaced, every party is let to give its verdict
\* and the session ends with the last of them.
SVerifyOut(out) ==
    /\ op' = "verify_encrypted_shares"
    /\ ret' = out.ret
    /\ hasher' = out.hasher
    /\ buf' = out.buf
    /\ vsRet' = Append(vsRet, out.ret)
    /\ IF ~IsOk(out.ret) THEN pc' = "panic" /\ cur' = cur
       ELSE IF tamper.kind # "none" THEN LoopStep("s_enc", "s_done")
       ELSE IF ~out.ret.b THEN pc' = "panic" /\ cur' = cur
       ELSE LoopStep("s_enc", "s_decrypt")

SVerifyEncryptedShares ==
    /\ pc = "s_verify"
    /\ SVerifyOut(pi_s_verify_encrypted_shares(parties[cur], hasher, buf, x_pows))
    /\ UNCHANGED <<parties, G, job, arg, x_pows, n, t, rng, dealer, secrets, dealt, wire, tamper, p, recon>>

\* p.decrypt_share().unwrap()
SDecryptShare ==
    /\ pc = "s_decrypt"
    /\ SPartyStep("decrypt_share", pi_s_decrypt_share(parties[cur]), "s_dleq")
    /\ UNCHANGED <<G, job, arg, x_pows, n, t, rng, hasher, buf, dealer, secrets, dealt, wire, tamper, p, vsRet, recon>>

\* p.dleq_share(&G, &mut rng, &mut hasher, &mut buf).unwrap()
SDleqOut(out) ==
    /\ op' = "dleq_share"
    /\ ret' = out.ret
    /\ parties' = [parties EXCEPT ![cur] = out.self]
    /\ rng' = out.rng
    /\ hasher' = out.hasher
    /\ buf' = out.buf
    /\ IF IsOk(out.ret) THEN LoopStep("s_decrypt", "s_shares") ELSE pc' = "panic" /\ cur' = cur

SDleqShare ==
    /\ pc = "s_dleq"
    /\ SDleqOut(pi_s_dleq_share(parties[cur], G, rng, hasher, buf))
    /\ UNCHANGED <<G, job, arg, x_pows, n, t, dealer, secrets, dealt, wire, tamper, p, vsRet, recon>>

\* Vec::remove(index): the vector without the element at index (0-based)
RemoveAt(v, index) == [i \in 1..(Len(v) - 1) |-> IF i <= index THEN v[i] ELSE v[i + 1]]

\* (p.decrypted_share.unwrap().compress(), p.share_proof.unwrap()) of every party
DecryptedSharesOf(ps) == [i \in 1..Len(ps) |-> compress(ps[i].decrypted_share.v)]

ShareProofsOf(ps) == [i \in 1..Len(ps) |-> ps[i].share_proof.v]

\* decrypted_shares.remove(p.index - 1); share_proofs.remove(p.index - 1);
\* p.ingest_decrypted_shares_and_proofs(&decrypted_shares, share_proofs).unwrap();
\* the party of this turn of the last loop is kept in p
SIngestDecryptedOut(out) ==
    /\ op' = "ingest_decrypted_shares_and_proofs"
    /\ ret' = out.ret
    /\ p' = out.self
    /\ arg' = <<>>
    /\ pc' = IF IsOk(out.ret) THEN "s_check" ELSE "panic"

SIngestDecryptedShares ==
    /\ pc = "s_shares"
    /\ SIngestDecryptedOut(
           pi_s_ingest_decrypted_shares_and_proofs(parties[cur],
               RemoveAt(DecryptedSharesOf(parties), parties[cur].index - 1),
               RemoveAt(ShareProofsOf(parties), parties[cur].index - 1)))
    /\ UNCHANGED <<job, parties, G, x_pows, n, t, rng, hasher, buf, dealer, secrets, dealt, wire, tamper, cur, vsRet, recon>>

\* assert!(p.verify_decrypted_shares(&G).unwrap())
SVerifyDecryptedShares ==
    /\ pc = "s_check"
    /\ op' = "verify_decrypted_shares"
    /\ ret' = pi_s_verify_decrypted_shares(p, G).ret
    /\ p' = pi_s_verify_decrypted_shares(p, G).self
    /\ pc' = IF IsOkTrue(pi_s_verify_decrypted_shares(p, G).ret) THEN "s_select" ELSE "panic"
    /\ UNCHANGED <<parties, G, job, arg, x_pows, n, t, rng, hasher, buf, dealer, secrets, dealt, wire, tamper, cur, vsRet, recon>>

\* p.select_qualified_set(&mut rng).unwrap()
SSelectQualifiedSet ==
    /\ pc = "s_select"
    /\ \E shuffled \in ShuffledPrefixes(p.validated_shares, p.t) :
          /\ op' = "select_qualified_set"
          /\ ret' = pi_s_select_qualified_set(p, shuffled).ret
          /\ p' = pi_s_select_qualified_set(p, shuffled).self
          /\ pc' = IF IsOk(pi_s_select_qualified_set(p, shuffled).ret)
                   THEN "s_reconstruct" ELSE "panic"
    /\ UNCHANGED <<parties, G, job, arg, x_pows, n, t, rng, hasher, buf, dealer, secrets, dealt, wire, tamper, cur, vsRet, recon>>

\* the indices of the qualified set, their Lagrange bases, and
\* reconstructed_secrets.push(p.reconstruct_secret(&lagrange_bases).unwrap())
SReconstructSecret ==
    /\ pc = "s_reconstruct"
    /\ op' = "reconstruct_secret"
    /\ arg' = compute_lagrange_bases([i \in 1..Len(p.qualified_set.v) |-> p.qualified_set.v[i][1]])
    /\ ret' = pi_s_reconstruct_secret(p, arg').ret
    /\ recon' = Append(recon, pi_s_reconstruct_secret(p, arg').out)
    /\ LoopStep("s_shares", "s_done")
    /\ UNCHANGED <<job, parties, G, x_pows, n, t, rng, hasher, buf, dealer, secrets, dealt, wire, tamper, p, vsRet>>

NextS ==
    \/ \E nn \in 1..MaxN : \E seed \in RngStates : \E kind \in TableKinds :
          SBegin(nn, (nn - 1) \div 2, seed, kind)
    \/ SGenerateParties
    \/ SDealerNew
    \/ SIngestPublicKeys
    \/ SDeal
    \/ \E i \in 1..MaxN : \E dl \in Scalars : STamperEncryptedShare(i, dl)
    \/ SIngestEncryptedShares
    \/ SIngestDealerProof
    \/ SVerifyEncryptedShares
    \/ SDecryptShare
    \/ SDleqShare
    \/ SIngestDecryptedShares
    \/ SVerifyDecryptedShares
    \/ SSelectQualifiedSet
    \/ SReconstructSecret

SpecS == Init /\ [][NextS]_vars

\* ------------------------------------ the sessions of B_Feldman and B_Pedersen
\* the largest number of parties of a session here: one more than MaxN, so
\* that a threshold of 2 and powers beyond the width of usize are met
MaxNC == MaxN + 1

Protocols == {"b_feldman", "b_pedersen"}

\* generator = random_point(rng), g = random_points(rng, K), and in b_pedersen
\* g0 = random_point(rng)
CDrawG0(proto, generator, g, overflow_checks) ==
    IF proto = "b_pedersen"
    THEN /\ arg' = [proto |-> proto, g |-> g.vals, g0 |-> random_point(g.rng).val,
                    overflow_checks |-> overflow_checks]
         /\ rng' = random_point(g.rng).rng
    ELSE /\ arg' = [proto |-> proto, g |-> g.vals, g0 |-> IdentityPoint,
                    overflow_checks |-> overflow_checks]
         /\ rng' = g.rng

CDrawG(proto, kk, generator, overflow_checks) ==
    /\ G' = generator.val
    /\ CDrawG0(proto, generator, random_points(generator.rng, kk), overflow_checks)

\* b_feldman / b_pedersen end_to_end: the generators and the power table,
\* that of gen_powers(N, T) or one laid out as the evaluations read it; the
\* build has overflow checks or has none
CBegin(proto, nn, tt, kk, seed, kind, overflow_checks) ==
    /\ pc = "start"
    /\ pc' = "c_powers"
    /\ n' = nn
    /\ t' = tt
    /\ CDrawG(proto, kk, random_point(seed), overflow_checks)
    /\ x_pows' = TableOf(kind, nn, tt)
    /\ op' = "gen_powers"
    /\ ret' = OkUnit
    /\ UNCHANGED <<job, parties, hasher, buf, dealer, secrets, dealt, wire, tamper, cur, p, vsRet, recon>>

\* generate_parties(&generator, &g, [&g0,] &mut rng, N, T)
CGenerateParties ==
    /\ pc = "c_powers"
    /\ op' = "generate_parties"
    /\ ret' = commit_generate_parties(G, arg.g, arg.g0, rng, n, t).ret
    /\ parties' = commit_generate_parties(G, arg.g, arg.g0, rng, n, t).parties
    /\ rng' = commit_generate_parties(G, arg.g, arg.g0, rng, n, t).rng
    /\ pc' = IF IsOk(commit_generate_parties(G, arg.g, arg.g0, rng, n, t).ret)
             THEN "c_parties" ELSE "panic"
    /\ UNCHANGED <<G, job, arg, x_pows, n, t, hasher, buf, dealer, secrets, dealt, wire, tamper, cur, p, vsRet, recon>>

\* Dealer::new(g, [g0,] N, T, &public_keys).unwrap()
CDealerNew ==
    /\ pc = "c_parties"
    /\ op' = "dealer_new"
    /\ ret' = commit_dealer_new(arg.g, arg.g0, n, t, CompressedKeysOf(parties)).ret
    /\ dealer' = commit_dealer_new(arg.g, arg.g0, n, t, CompressedKeysOf(parties)).self
    /\ pc' = IF IsOk(commit_dealer_new(arg.g, arg.g0, n, t, CompressedKeysOf(parties)).ret)
             THEN "c_keys" ELSE "panic"
    /\ cur' = 1
    /\ UNCHANGED <<parties, G, job, arg, x_pows, n, t, rng, hasher, buf, secrets, dealt, wire, tamper, p, vsRet, recon>>

\* party.public_keys = Some(ingest_public_keys(N, &party.public_key.1,
\* party.index, &public_keys).unwrap()), for each party in turn
CIngestPublicKeysOut(out) ==
    /\ op' = "ingest_public_keys"
    /\ ret' = out.ret
    /\ IF IsOk(out.ret)
       THEN /\ parties' = [parties EXCEPT ![cur].public_keys = SomeSeq(out.pks)]
            /\ LoopStep("c_keys", "c_deal")
       ELSE /\ pc' = "panic"
            /\ UNCHANGED <<parties, cur>>

CIngestPublicKeys ==
    /\ pc = "c_keys"
    /\ CIngestPublicKeysOut(
           ingest_public_keys(n, parties[cur].public_key[2], parties[cur].index,
               FilterOwn(CompressedKeysOf(parties), parties[cur].public_key[1])))
    /\ UNCHANGED <<G, job, arg, x_pows, n, t, rng, hasher, buf, dealer, secrets, dealt, wire, tamper, p, vsRet, recon>>

\* secrets = random_scalars(&mut rng, K); dealer.deal_secret(..)
CDealOut(secrets_, out) ==
    /\ op' = "deal_secret"
    /\ ret' = out.ret
    /\ secrets' = secrets_
    /\ rng' = out.rng
    /\ dealt' = [shares |-> out.shares, r_evals |-> out.r_evals, c_vals |-> out.c_vals]
    /\ wire' = [shares |-> out.shares, r_evals |-> out.r_evals, c_vals |-> out.c_vals]
    /\ pc' = IF IsOk(out.ret) THEN "c_proof" ELSE "panic"

CDealDrawn(drawn) ==
    IF arg.proto = "b_pedersen"
    THEN CDealOut(drawn.vals, b_pedersen_deal_secret(dealer, drawn.rng, x_pows, drawn.vals))
    ELSE CDealOut(drawn.vals, b_feldman_deal_secret(dealer, x_pows, drawn.vals, drawn.rng))

CDeal ==
    /\ pc = "c_deal"
    /\ CDealDrawn(random_scalars(rng, Len(arg.g)))
    /\ UNCHANGED <<parties, G, job, arg, x_pows, n, t, hasher, buf, dealer, tamper, cur, p, vsRet, recon>>

CFrame ==
    UNCHANGED <<G, job, arg, x_pows, n, t, rng, hasher, buf, dealer, secrets, dealt, wire, tamper, p,
                vsRet, recon>>

\* p.ingest_dealer_proof(&c_vals).unwrap()
CIngestDealerProof ==
    /\ pc = "c_proof"
    /\ SPartyStep("ingest_dealer_proof",
                  commit_ingest_dealer_proof(parties[cur], wire.c_vals), "c_share")
    /\ CFrame

\* p.ingest_share(&shares[p.index - 1]), in b_pedersen with &r_evals[p.index - 1]
CIngestShare ==
    /\ pc = "c_share"
    /\ IF arg.proto = "b_pedersen"
       THEN SPartyStep("ingest_share",
                b_pedersen_ingest_share(parties[cur],
                    <<wire.shares[parties[cur].index], wire.r_evals[parties[cur].index]>>),
                "c_verify")
       ELSE SPartyStep("ingest_share",
                b_feldman_ingest_share(parties[cur], wire.shares[parties[cur].index]),
                "c_verify")
    /\ CFrame

\* a verification that the session asserts to be true
CAsserted(name, out, next_pc) ==
    /\ op' = name
    /\ ret' = out.ret
    /\ parties' = [parties EXCEPT ![cur] = out.self]
    /\ IF IsOkTrue(out.ret) THEN next_pc ELSE pc' = "panic" /\ cur' = cur

\* assert!(p.verify_share().unwrap())
CVerifyShare ==
    /\ pc = "c_verify"
    /\ IF arg.proto = "b_pedersen"
       THEN CAsserted("verify_share", b_pedersen_verify_share(parties[cur], arg.overflow_checks),
                      pc' = "c_shares" /\ cur' = cur)
       ELSE CAsserted("verify_share", b_feldman_verify_share(parties[cur], arg.overflow_checks),
                      pc' = "c_shares" /\ cur' = cur)
    /\ CFrame

\* p.ingest_shares(&shares).unwrap(), in b_pedersen with &r_evals
CIngestShares ==
    /\ pc = "c_shares"
    /\ IF arg.proto = "b_pedersen"
       THEN SPartyStep("ingest_shares",
                b_pedersen_ingest_shares(parties[cur], <<wire.shares, wire.r_evals>>), "c_check")
       ELSE SPartyStep("ingest_shares",
                b_feldman_ingest_shares(parties[cur], wire.shares), "c_check")
    /\ CFrame

\* assert!(p.verify_shares().unwrap()); the turn of a party is followed up
\* to here
CVerifyShares ==
    /\ pc = "c_check"
    /\ IF arg.proto = "b_pedersen"
       THEN CAsserted("verify_shares", b_pedersen_verify_shares(parties[cur], arg.overflow_checks),
                      LoopStep("c_proof", "c_done"))
       ELSE CAsserted("verify_shares", b_feldman_verify_shares(parties[cur], arg.overflow_checks),
                      LoopStep("c_proof", "c_done"))
    /\ CFrame

\* let mut rng = rand::rng(): the seeds the sessions start from.  The
\* generator runs through all its states on one cycle, so two seeds differ
\* by an offset into it; every second offset is taken.
SeedsC == {s \in RngStates : s % 2 = 0}

NextC ==
    \/ \E proto \in Protocols : \E nn \in 1..MaxNC : \E kk \in 1..MaxK : \E seed \in SeedsC :
       \E kind \in TableKinds : \E overflow_checks \in BOOLEAN :
          CBegin(proto, nn, (nn - 1) \div 2, kk, seed, kind, overflow_checks)
    \/ CGenerateParties
    \/ CDealerNew
    \/ CIngestPublicKeys
    \/ CDeal
    \/ CIngestDealerProof
    \/ CIngestShare
    \/ CVerifyShare
    \/ CIngestShares
    \/ CVerifyShares

SpecC == Init /\ [][NextC]_vars

\* ---------------------------------------------- verify_shares, check by check
\* A session up to ingest_shares, then verify_shares with its parallel loop
\* unfolded: the threads of the pool start jobs and take items in any order.

\* p.verify_shares(&mut hasher, &mut buf) of B_Pi_LA, up to the loop
LaFork ==
    /\ pc = "p_shares"
    /\ IF p.dealer_proof.some /\ p.shares.some /\ p.shares.v # <<>>
       THEN /\ job' = forked_job("b_pi_la", p, hasher, buf, <<>>,
                                 compute_d_powers_from_hash_commitments(
                                     hasher, buf, p.dealer_proof.cvals, Len(p.shares.v[1])).d_vals,
                                 evaluate_range(p.dealer_proof.z, 1, p.n))
            /\ hasher' = compute_d_powers_from_hash_commitments(
                             hasher, buf, p.dealer_proof.cvals, Len(p.shares.v[1])).hasher
            /\ buf' = compute_d_powers_from_hash_commitments(
                          hasher, buf, p.dealer_proof.cvals, Len(p.shares.v[1])).buf
            /\ pc' = "par"
            /\ UNCHANGED <<op, ret>>
       ELSE /\ ret' = verify_shares(p, hasher, buf).ret
            /\ op' = "verify_shares"
            /\ pc' = "panic"
            /\ UNCHANGED <<job, hasher, buf>>
    /\ UNCHANGED <<parties, G, arg, x_pows, n, t, rng, dealer, secrets, dealt, wire, tamper, cur, p, vsRet, recon>>

ParFrame ==
    UNCHANGED <<parties, G, arg, x_pows, n, t, rng, hasher, buf, dealer, secrets, dealt, wire,
                tamper, cur, p, pc, op, ret, vsRet, recon>>

\* the scalars of share i (0-based) in the loop: &shares[i], or fi of the
\* pair (fi, gi) that the zip of B_Pi_P_Plus hands to the closure
item_fi(jb, i) ==
    IF jb.proto = "b_pi_la" THEN jb.args.self.shares.v[i + 1] ELSE jb.args.self.shares.v[i + 1][1]

\* thread w starts a job at item i (0-based): init makes its state
ParInit(w, i) ==
    /\ pc = "par"
    /\ job.locals[w].stage \in {"idle", "ready"}
    /\ i < Len(job.out)
    /\ job.out[i + 1] = "todo"
    /\ \A w2 \in Workers : ~(job.locals[w2].stage = "ready" /\ job.locals[w2].at = i)
    /\ job' = [job EXCEPT !.locals[w] =
                  [stage |-> "ready", at |-> i,
                   l_hasher |-> map_init_state.l_hasher, l_buf |-> map_init_state.l_buf]]
    /\ ParFrame

\* thread w runs the closure on the next item of its job, up to l_hasher.reset()
ParHash(w) ==
    /\ pc = "par"
    /\ job.locals[w].stage = "ready"
    /\ job.out[job.locals[w].at + 1] = "todo"
    /\ job' = [job EXCEPT !.out[job.locals[w].at + 1] = "taken",
                          !.locals[w] = item_hash(@, item_fi(job, job.locals[w].at),
                                                  job.z_evals[job.locals[w].at + 1], job.d_vals)]
    /\ ParFrame

\* the comparison of the closure
item_check(jb, local) ==
    IF jb.proto = "b_pi_la"
    THEN b_pi_la_item_check(jb.args.self, local, local.at)
    ELSE b_pi_p_plus_item_check(jb.args.self, local.l_buf, local.at)

\* the job of a thread after an item: the next item of its run, or the end of
\* the job when the run is over (its state is dropped)
after_item(out, local) ==
    IF local.at + 1 < Len(out) /\ out[local.at + 2] = "todo"
    THEN [local EXCEPT !.stage = "ready", !.at = local.at + 1, !.l_buf = ZeroBuf]
    ELSE IdleWorker

\* thread w finishes the closure: the comparison, l_buf.zeroize(), Some(i) or None
ParCompare(w) ==
    /\ pc = "par"
    /\ job.locals[w].stage = "hashed"
    /\ job' = [job EXCEPT !.out[job.locals[w].at + 1] = item_result(item_check(job, job.locals[w])),
                          !.finished = Append(@, job.locals[w].at),
                          !.locals[w] = after_item(job.out, @)]
    /\ ParFrame

\* every item has its result: collect, and Ok(self.validated_shares.len() > self.t)
ParJoin ==
    /\ pc = "par"
    /\ \A i \in 1..Len(job.out) : job.out[i] \in {"Some", "None"}
    /\ p' = [p EXCEPT !.validated_shares = job_validated(job.out)]
    /\ ret' = verify_shares_ret(job_validated(job.out), p.t)
    /\ op' = "verify_shares"
    /\ pc' = "p_vss"
    /\ job' = [job EXCEPT !.phase = "joined"]
    /\ UNCHANGED <<parties, G, arg, x_pows, n, t, rng, hasher, buf, dealer, secrets, dealt, wire,
                   tamper, cur, vsRet, recon>>

\* B_Pi_P_Plus, as its benchmark runs it: g, g1, g2 = random_point(rng) and the
\* power table, that of gen_powers(n, t) or one laid out as the evaluations
\* read it
PPDrawG2(g, g1, g2) ==
    /\ G' = g.val
    /\ arg' = [proto |-> "b_pi_p_plus", g1 |-> g1.val, g2 |-> g2.val]
    /\ rng' = g2.rng

PPDrawG1(g, g1) == PPDrawG2(g, g1, random_point(g1.rng))

PPBegin(nn, tt, seed, kind) ==
    /\ pc = "start"
    /\ pc' = "pp_powers"
    /\ n' = nn
    /\ t' = tt
    /\ PPDrawG1(random_point(seed), random_point(random_point(seed).rng))
    /\ x_pows' = TableOf(kind, nn, tt)
    /\ op' = "gen_powers"
    /\ ret' = OkUnit
    /\ UNCHANGED <<job, parties, hasher, buf, dealer, secrets, dealt, wire, tamper, cur, p, vsRet, recon>>

\* generate_parties(&g, &g1, &g2, &mut rng, n, t)
PPGenerateParties ==
    /\ pc = "pp_powers"
    /\ op' = "generate_parties"
    /\ ret' = b_pi_p_plus_generate_parties(G, arg.g1, arg.g2, rng, n, t).ret
    /\ parties' = b_pi_p_plus_generate_parties(G, arg.g1, arg.g2, rng, n, t).parties
    /\ rng' = b_pi_p_plus_generate_parties(G, arg.g1, arg.g2, rng, n, t).rng
    /\ pc' = IF IsOk(b_pi_p_plus_generate_parties(G, arg.g1, arg.g2, rng, n, t).ret)
             THEN "pp_parties" ELSE "panic"
    /\ UNCHANGED <<G, job, arg, x_pows, n, t, hasher, buf, dealer, secrets, dealt, wire, tamper, cur, p, vsRet, recon>>

\* Dealer::new(g1, g2, n, t, &public_keys).unwrap()
PPDealerNew ==
    /\ pc = "pp_parties"
    /\ op' = "dealer_new"
    /\ ret' = b_pi_p_plus_dealer_new(arg.g1, arg.g2, n, t, CompressedKeysOf(parties)).ret
    /\ dealer' = b_pi_p_plus_dealer_new(arg.g1, arg.g2, n, t, CompressedKeysOf(parties)).self
    /\ pc' = IF IsOk(b_pi_p_plus_dealer_new(arg.g1, arg.g2, n, t, CompressedKeysOf(parties)).ret)
             THEN "pp_keys" ELSE "panic"
    /\ cur' = 1
    /\ UNCHANGED <<parties, G, job, arg, x_pows, n, t, rng, hasher, buf, secrets, dealt, wire, tamper, p, vsRet, recon>>

\* party.public_keys = Some(ingest_public_keys(n, &party.public_key.1,
\* party.index, &public_keys).unwrap()), for each party in turn
PPIngestPublicKeysOut(out) ==
    /\ op' = "ingest_public_keys"
    /\ ret' = out.ret
    /\ IF IsOk(out.ret)
       THEN /\ parties' = [parties EXCEPT ![cur].public_keys = SomeSeq(out.pks)]
            /\ LoopStep("pp_keys", "pp_deal")
       ELSE /\ pc' = "panic"
            /\ UNCHANGED <<parties, cur>>

PPIngestPublicKeys ==
    /\ pc = "pp_keys"
    /\ PPIngestPublicKeysOut(
           ingest_public_keys(n, parties[cur].public_key[2], parties[cur].index,
               FilterOwn(CompressedKeysOf(parties), parties[cur].public_key[1])))
    /\ UNCHANGED <<G, job, arg, x_pows, n, t, rng, hasher, buf, dealer, secrets, dealt, wire, tamper, p, vsRet, recon>>

\* secrets = random_scalars(&mut rng, k);
\* dealer.deal_secret(&mut rng, &mut hasher, &mut buf, &xpows, &secrets)
PPDealOut(secrets_, out) ==
    /\ op' = "deal_secret"
    /\ ret' = out.ret
    /\ secrets' = secrets_
    /\ rng' = out.rng
    /\ hasher' = out.hasher
    /\ buf' = out.buf
    /\ dealt' = [shares |-> out.shares, g |-> out.g, cvals |-> out.cvals, z |-> out.z]
    /\ wire' = [shares |-> out.shares, g |-> out.g, cvals |-> out.cvals, z |-> out.z]
    /\ pc' = IF IsOk(out.ret) THEN "pp_dealt" ELSE "panic"

PPDealDrawn(drawn) ==
    PPDealOut(drawn.vals,
              b_pi_p_plus_deal_secret(dealer, drawn.rng, hasher, buf, x_pows, drawn.vals))

PPDeal(kk) ==
    /\ pc = "pp_deal"
    /\ PPDealDrawn(random_scalars(rng, kk))
    /\ UNCHANGED <<parties, G, job, arg, x_pows, n, t, dealer, tamper, cur, p, vsRet, recon>>

\* the first scalar of share i (0-based) is overwritten with itself + 1
\* before the shares are ingested
PPTamperShare(i) ==
    /\ pc = "pp_dealt"
    /\ tamper = NoTamper
    /\ i < Len(wire.shares)
    /\ wire' = [wire EXCEPT !.shares[i + 1][1] = Add(@, 1)]
    /\ tamper' = [kind |-> "share", i |-> i, j |-> 0]
    /\ UNCHANGED <<parties, G, job, arg, x_pows, pc, n, t, rng, hasher, buf, dealer, secrets, dealt, cur, p, op, ret, vsRet, recon>>

\* one call on p = &mut parties[0] that the benchmark unwraps
PPPartyStep(name, out, next_pc) ==
    /\ op' = name
    /\ ret' = out.ret
    /\ p' = out.self
    /\ pc' = IF IsOk(out.ret) THEN next_pc ELSE "panic"
    /\ UNCHANGED <<parties, G, job, arg, x_pows, n, t, rng, hasher, buf, dealer, secrets, dealt, wire, tamper, cur, vsRet, recon>>

\* let p = &mut parties[0]; p.ingest_shares((&shares, &g)).unwrap()
PPIngestShares ==
    /\ pc = "pp_dealt"
    /\ PPPartyStep("ingest_shares",
                   b_pi_p_plus_ingest_shares(parties[1], <<wire.shares, wire.g>>), "pp_shares")

\* p.ingest_dealer_proof((&c_vals, &z)).unwrap()
PPIngestDealerProof ==
    /\ pc = "pp_shares"
    /\ PPPartyStep("ingest_dealer_proof",
                   b_pi_p_plus_ingest_dealer_proof(p, wire.cvals, wire.z), "pp_proof")

\* p.verify_shares(&mut hasher, &mut buf, &xpows) of B_Pi_P_Plus, up to the loop
PPForkEvals(derived, z_evals) ==
    IF IsOk(z_evals.ret)
    THEN /\ job' = forked_job("b_pi_p_plus", p, hasher, buf, x_pows, derived.d_vals, z_evals.evals)
         /\ hasher' = derived.hasher
         /\ buf' = derived.buf
         /\ pc' = "par"
         /\ UNCHANGED <<op, ret>>
    ELSE /\ ret' = Panic
         /\ op' = "verify_shares"
         /\ pc' = "panic"
         /\ hasher' = derived.hasher
         /\ buf' = derived.buf
         /\ UNCHANGED job

PPFork ==
    /\ pc = "pp_proof"
    /\ IF p.dealer_proof.some /\ p.shares.some /\ p.shares.v # <<>>
       THEN PPForkEvals(compute_d_powers_from_point_commitments(
                            hasher, buf, p.dealer_proof.compressed_cvals, Len(p.shares.v[1][1])),
                        evaluate_range_precomp(p.dealer_proof.z, x_pows, 1, p.n))
       ELSE /\ ret' = b_pi_p_plus_verify_shares(p, hasher, buf, x_pows).ret
            /\ op' = "verify_shares"
            /\ pc' = "panic"
            /\ UNCHANGED <<job, hasher, buf>>
    /\ UNCHANGED <<parties, G, arg, x_pows, n, t, rng, dealer, secrets, dealt, wire, tamper, cur, p, vsRet, recon>>

\* the sequential run of the verify_shares that the job unfolds
sequential_verify_shares(jb) ==
    IF jb.proto = "b_pi_la"
    THEN verify_shares(jb.args.self, jb.args.hasher, jb.args.buf)
    ELSE b_pi_p_plus_verify_shares(jb.args.self, jb.args.hasher, jb.args.buf, jb.args.x_pows)

NextP ==
    \/ \E nn \in 1..MaxN, seed \in 0..MaxSeed, kind \in TableKinds :
          PPBegin(nn, (nn - 1) \div 2, seed, kind)
    \/ PPGenerateParties
    \/ PPDealerNew
    \/ PPIngestPublicKeys
    \/ \E kk \in 1..MaxK : PPDeal(kk)
    \/ \E i \in 0..(MaxN + 1) : PPTamperShare(i)
    \/ PPIngestShares
    \/ PPIngestDealerProof
    \/ PPFork
    \/ \E nn \in 1..MaxN, seed \in 0..MaxSeed : Begin(nn, (nn - 1) \div 2, seed)
    \/ GenerateParties
    \/ DealerNew
    \/ Deal(MaxK)
    \/ \E i \in 0..(MaxN + 1) : TamperShare(i, 0)
    \/ \E i \in 0..(MaxN + 1) : TamperAnotherShare(i)
    \/ \E i \in 0..(MaxN + 1) : TamperCommitment(i)
    \/ NextParty
    \/ IngestDealerProof
    \/ IngestShare
    \/ VerifyShare
    \/ IngestShares
    \/ LaFork
    \/ \E w \in Workers : \E i \in 0..MaxN : ParInit(w, i)
    \/ \E w \in Workers : ParHash(w)
    \/ \E w \in Workers : ParCompare(w)
    \/ ParJoin

SpecP == Init /\ [][NextP]_vars

\* ------------------------------------------------------------------ claims

\* C1: completeness of verify_share.  After an honest deal (nothing altered
\* on the way), for every valid (n, t), every k and every secrets vector,
\* each party that ingested the proof and its own share gets Ok(true) from
\* verify_share: every verdict recorded so far in the session is Ok(true).
C1_VerifyShareComplete ==
    tamper = NoTamper =>
        /\ op = "verify_share" => IsOkTrue(ret)
        /\ \A i \in 1..Len(vsRet) : vsRet[i] # NoRet => IsOkTrue(vsRet[i])

\* the last of at least three parties has verified its share of two secrets
C1_Witness ==
    /\ tamper = NoTamper
    /\ op = "verify_share"
    /\ n >= 3
    /\ cur = n
    /\ Len(secrets) = 2
    /\ IsOkTrue(ret)
    /\ \A i \in 1..n : IsOkTrue(vsRet[i])

\* C2: completeness of verify_shares.  After an honest deal, a party that
\* ingested the proof and all n shares gets Ok(true) from verify_shares, and
\* validated_shares holds every 0-based index 0..n-1, in order.
C2_VerifySharesComplete ==
    (tamper = NoTamper /\ op = "verify_shares") =>
        /\ IsOkTrue(ret)
        /\ p.validated_shares = [i \in 1..n |-> i - 1]

\* the last of at least three parties has validated all the shares
C2_Witness ==
    /\ tamper = NoTamper
    /\ op = "verify_shares"
    /\ n >= 3
    /\ p.index = n
    /\ Len(secrets) = 2
    /\ IsOkTrue(ret)
    /\ Len(p.validated_shares) = n

\* the 0-based entries of validated_shares
ValidatedSet(validated_shares) == {validated_shares[m] : m \in 1..Len(validated_shares)}

\* a qualified set of exactly t + 1 pairs with pairwise distinct indices,
\* each pair (x + 1, shares[x]) for an x of validated_shares
WellFormedQualifiedSet(qs, tt, shares, validated_shares) ==
    /\ Len(qs) = tt + 1
    /\ \A a, b \in 1..Len(qs) : a # b => qs[a].index # qs[b].index
    /\ \A m \in 1..Len(qs) :
          /\ qs[m].index - 1 \in ValidatedSet(validated_shares)
          /\ qs[m].index <= Len(shares)
          /\ qs[m].share = shares[qs[m].index]

\* C3: reconstruction correctness.  generate_shares_batched, given the table
\* of gen_powers(n, t) and the secrets s_1..s_k, produces n shares, and
\* reconstruct_secrets over any t + 1 distinct validated indices, with the
\* Lagrange bases of that index set, returns [s_1, ..., s_k] in order.
C3_ReconstructionCorrect ==
    /\ op = "generate_shares_batched" => (IsOk(ret) /\ Len(wire.shares) = n)
    /\ (/\ op = "reconstruct_secrets"
        /\ tamper = NoTamper
        /\ WellFormedQualifiedSet(p.qualified_set.v, p.t, p.shares.v, p.validated_shares))
          => (IsOk(ret) /\ recon = secrets)

\* C4: share-tamper detection.  One scalar of one party's share vector is
\* replaced by that scalar plus 1 after an honest deal (party 4, scalar 1 in
\* the scenario).  verify_share of that party returns Ok(false) and of every
\* other party Ok(true); verify_shares of any party records exactly the n - 1
\* other indices; reconstruction from a qualified set drawn from those
\* indices still returns the original secrets.
C4_ShareTamperDetected ==
    tamper.kind = "share" =>
        /\ op = "verify_share" => (IsOk(ret) /\ (ret.b <=> cur # tamper.i + 1))
        /\ \A i \in 1..Len(vsRet) :
              vsRet[i] # NoRet => (IsOk(vsRet[i]) /\ (vsRet[i].b <=> i # tamper.i + 1))
        /\ op = "verify_shares" =>
              /\ IsOk(ret)
              /\ Len(p.validated_shares) = n - 1
              /\ ValidatedSet(p.validated_shares) = (0..(n - 1)) \ {tamper.i}
        /\ (/\ op = "reconstruct_secrets"
            /\ WellFormedQualifiedSet(p.qualified_set.v, p.t, p.shares.v, p.validated_shares))
              => (IsOk(ret) /\ recon = secrets)

\* share[3][1] was altered among four parties and two secrets: party 4 was
\* refused, the last party validated the three others and reconstructed
C4_Witness ==
    /\ tamper = [kind |-> "share", i |-> 3, j |-> 1]
    /\ n = 4
    /\ cur = n
    /\ op = "reconstruct_secrets"
    /\ IsOkFalse(vsRet[4])
    /\ \A i \in 1..3 : IsOkTrue(vsRet[i])
    /\ p.validated_shares = <<0, 1, 2>>
    /\ WellFormedQualifiedSet(p.qualified_set.v, p.t, p.shares.v, p.validated_shares)
    /\ recon = secrets

\* C5: commitment-tamper detection.  One commitment C[i] of an honest proof
\* is altered (C[5] in the scenario).  Every party's verify_shares records
\* at most n - 1 validated indices, and the 0-based index i is not among them.
C5_CommitmentTamperDetected ==
    (tamper.kind = "commitment" /\ op = "verify_shares") =>
        /\ IsOk(ret)
        /\ Len(p.validated_shares) <= n - 1
        /\ tamper.i \notin ValidatedSet(p.validated_shares)

\* the last commitment of at least three was altered and the last party has
\* run verify_shares: some indices are validated, the altered one is not
C5_Witness ==
    /\ tamper.kind = "commitment"
    /\ n >= 3
    /\ tamper.i = n - 1
    /\ op = "verify_shares"
    /\ p.index = n
    /\ IsOk(ret)
    /\ p.validated_shares # <<>>
    /\ tamper.i \notin ValidatedSet(p.validated_shares)

\* C6: proof-tamper detection on z.  A single coefficient of z is altered,
\* commitments and shares unchanged, the hash collision-free.  Once every
\* party has run verify_share, at least one of them got Ok(false).
C6_ZTamperDetected ==
    (tamper.kind = "z" /\ vsRet # <<>> /\ \A i \in 1..Len(vsRet) : vsRet[i] # NoRet) =>
        \E i \in 1..Len(vsRet) : IsOkFalse(vsRet[i])

\* the leading coefficient of z was altered and all of at least three
\* parties have run verify_share
C6_Witness ==
    /\ tamper.kind = "z"
    /\ tamper.j = t
    /\ n >= 3
    /\ \A i \in 1..n : vsRet[i] # NoRet
    /\ \E i \in 1..n : IsOkFalse(vsRet[i])

\* C7: Party::new rejects, with InvalidParameterSet, every (n, t, index)
\* with t # floor((n-1)/2) or index > n or index < 1; it never accepts such
\* a triple and never panics on it.
C7_PartyNewRejects ==
    pc = "probed" =>
        /\ ret.tag # "Panic"
        /\ IsOk(ret) => (p.t = (p.n - 1) \div 2 /\ 1 <= p.index /\ p.index <= p.n)
        /\ ~IsOk(ret) => IsErr(ret, "InvalidParameterSet")

\* the select_qualified_set of the party or the free function of common was
\* the last operation, on a party holding shares
SelectCalled ==
    /\ op \in {"select_qualified_set", "party_select_qualified_set"}
    /\ p.shares.some

\* C8: select_qualified_set fails with InsufficientShares(|validated|, t)
\* whenever the number of validated shares is <= t, however many shares were
\* ingested; it never returns Ok in that case.
C8_SelectInsufficient ==
    (SelectCalled /\ Len(p.validated_shares) <= p.t) =>
        /\ IsErr(ret, "InsufficientShares")
        /\ ret.err.a = Len(p.validated_shares)
        /\ ret.err.b = p.t

\* C9: whenever select_qualified_set returns Ok, the qualified set has
\* exactly t + 1 pairs, with pairwise distinct indices, each pair being
\* (x + 1, shares[x]) for an x of validated_shares.
C9_QualifiedSetShape ==
    (SelectCalled /\ IsOk(ret)) =>
        /\ p.qualified_set.some
        /\ WellFormedQualifiedSet(p.qualified_set.v, p.t, p.shares.v, p.validated_shares)

\* C10: verify_shares returns Ok(true) if and only if the number of indices
\* recorded in validated_shares is strictly greater than t; with t or fewer
\* it returns Ok(false), not an error.
C10_VerifySharesVerdict ==
    op = "verify_shares" =>
        /\ IsOk(ret)
        /\ ret.b <=> Len(p.validated_shares) > p.t

\* exactly t >= 1 shares verified, the others altered: the verdict is Ok(false)
C10_Witness ==
    /\ op = "verify_shares"
    /\ p.t >= 1
    /\ Len(p.validated_shares) = p.t
    /\ IsOkFalse(ret)

\* the operations of a party that read fields set by earlier operations
PartyOps ==
    {"verify_share", "verify_shares", "party_select_qualified_set", "select_qualified_set",
     "party_reconstruct_secrets", "reconstruct_secrets"}

\* C11: in every sequence of Party operations, an operation invoked while a
\* field it needs is absent or empty returns an error value, UninitializedValue
\* for an absent field, and never panics; reconstruct_secrets called on a
\* qualified set produced by select_qualified_set included.
C11_AbsentFieldIsError ==
    op \in PartyOps =>
        /\ ret.tag # "Panic"
        /\ (op = "verify_share" /\ (~p.dealer_proof.some \/ ~p.share.some))
              => IsErr(ret, "UninitializedValue")
        /\ (op = "verify_shares" /\ (~p.dealer_proof.some \/ ~p.shares.some))
              => IsErr(ret, "UninitializedValue")
        /\ (op \in {"party_select_qualified_set", "select_qualified_set"} /\ ~p.shares.some)
              => IsErr(ret, "UninitializedValue")
        /\ (op \in {"party_reconstruct_secrets", "reconstruct_secrets"} /\ ~p.qualified_set.some)
              => IsErr(ret, "UninitializedValue")
        /\ (op \in {"party_select_qualified_set", "select_qualified_set"}
               /\ p.shares.some /\ p.validated_shares = <<>>)
              => ret.tag = "Err"

\* C12: ingest_dealer_proof(C, z) fails with InvalidProof whenever |C| # n
\* or |z| # t + 1, and stores the proof only when both lengths match: a call
\* with matching lengths leaves (C, z) as the party's proof, a call with a
\* wrong length does not, and a proof held by a party always has n
\* commitments and t + 1 coefficients.
C12_IngestDealerProofLengths ==
    /\ (pc = "free" /\ op = "ingest_dealer_proof") =>
          IF Len(arg[1]) # p.n \/ Len(arg[2]) # p.t + 1
          THEN IsErr(ret, "InvalidProof") /\ p.dealer_proof # SomeProof(arg[1], arg[2])
          ELSE IsOk(ret) /\ p.dealer_proof = SomeProof(arg[1], arg[2])
    /\ (pc = "free" /\ p.dealer_proof.some) =>
          Len(p.dealer_proof.cvals) = p.n /\ Len(p.dealer_proof.z) = p.t + 1

\* a proof with t + 1 coefficients and one commitment too many was refused
C12_Witness ==
    /\ pc = "free"
    /\ op = "ingest_dealer_proof"
    /\ Len(arg[1]) = p.n + 1
    /\ Len(arg[2]) = p.t + 1
    /\ IsErr(ret, "InvalidProof")
    /\ ~p.dealer_proof.some

\* the stored key list without the entry at position index (1-based)
WithoutOwn(v, index) == [i \in 1..(Len(v) - 1) |-> IF i < index THEN v[i] ELSE v[i + 1]]

\* C13: ingest_public_keys succeeds only when given exactly n - 1 keys; on
\* success the stored list has length n, holds the party's own key at
\* position index - 1 (0-based) and the supplied keys, decompressed, in their
\* given order at all other positions; any other input length fails with
\* CountMismatch.
C13_IngestPublicKeys ==
    (pc = "probed" /\ op = "ingest_public_keys") =>
        /\ IsOk(ret) => Len(arg) = p.n - 1
        /\ IsOk(ret) =>
              /\ p.public_keys.some
              /\ Len(p.public_keys.v) = p.n
              /\ p.public_keys.v[p.index] = p.index
              /\ WithoutOwn(p.public_keys.v, p.index)
                    = batch_decompress_ristretto_points(arg).pks
        /\ Len(arg) # p.n - 1 =>
              /\ IsErr(ret, "CountMismatch")
              /\ ~p.public_keys.some

\* a party of index 2 among 3 or more was handed the n - 1 keys of the others
C13_Witness ==
    /\ pc = "probed"
    /\ op = "ingest_public_keys"
    /\ IsOk(ret)
    /\ p.n >= 3
    /\ p.index = 2
    /\ Len(arg) = p.n - 1
    /\ p.public_keys.v[1] = 1
    /\ p.public_keys.v[3] = 3

\* C14: no partial success.  Whenever an operation of a Party or of the
\* Dealer returns an error, every field of that Party and of the Dealer has
\* the value it had before the call; for ingest_public_keys, called on a
\* party fresh from Party::new, the party is still as Party::new made it.
C14_NoPartialSuccess ==
    [][ret'.tag = "Err" =>
          /\ dealer' = dealer
          /\ pc = "free" => p' = p
          /\ op' = "ingest_public_keys" => p' = party_new(p'.n, p'.t, p'.index).self]_vars

\* a party holding a proof and the shares was handed a share list of the
\* wrong length: CountMismatch, and what it held is still there
C14_Witness ==
    /\ pc = "free"
    /\ op = "ingest_shares"
    /\ IsErr(ret, "CountMismatch")
    /\ p.dealer_proof.some
    /\ p.shares.some
    /\ Len(p.shares.v) = p.n

\* C15: transcript reset and determinism.  After every challenge derivation
\* (by the dealer in deal_secrets_v2, by a party in verify_share and
\* verify_shares, in any order and any number of times) the shared hasher is
\* back in its fresh state, and deriving the challenge of a commitment
\* sequence with the hasher as it then is yields the same d as deriving it
\* with a new hasher.
C15_TranscriptReset ==
    /\ hasher = <<>>
    /\ \A commitments \in {dealt.cvals, wire.cvals, p.dealer_proof.cvals} :
          compute_d_from_hash_commitments(hasher, buf, commitments).d
             = compute_d_from_hash_commitments(<<>>, ZeroBuf, commitments).d

\* the dealer derived d in deal_secrets_v2, then the party derived it from
\* the same hasher in verify_shares, and its checks against the dealer's z
\* all passed
C15_Witness ==
    /\ pc = "free"
    /\ op = "verify_shares"
    /\ IsOkTrue(ret)
    /\ Len(p.validated_shares) = p.n
    /\ p.n >= 3
    /\ hasher = <<>>

\* the operations that squeeze the XOF into the caller's 64-byte buffer
SqueezingOps == {"deal_secrets", "verify_share", "verify_shares"}

C17_LagrangeIdentity ==
    (pc = "fn_done" /\ op = "compute_lagrange_bases") =>
        /\ Len(recon) = Len(arg.s)
        /\ ZipMulSum(recon, [i \in 1..Len(arg.s) |-> evaluate(arg.f, arg.s[i])])
              = evaluate(arg.f, 0)

\* the bases of {1, 3, 4} against a polynomial of degree exactly 2
C17_Witness ==
    /\ pc = "fn_done"
    /\ op = "compute_lagrange_bases"
    /\ arg.s = <<1, 3, 4>>
    /\ arg.f = <<5, 0, 2>>
    /\ Len(recon) = 3

\* the value at x of sum over j of d_vals[j] * f_polys[j]
WeightedSumAt(f_polys, d_vals, x) ==
    SumSeq([j \in 1..Len(f_polys) |-> Mul(d_vals[j], evaluate(f_polys[j], x))])

\* C18: fused-response identity.  After z.compute_z(f_polys, d_vals) with
\* |f_polys| = |d_vals| and all polynomials of the same length, for every
\* evaluation point x, z(x) = r(x) + sum over j of d_vals[j] * f_polys[j](x),
\* where r is the value of z before the call.
C18_FusedResponse ==
    (pc = "z_done" /\ op = "compute_z") =>
        /\ Len(recon) = Len(arg.r)
        /\ \A x \in Scalars :
              evaluate(recon, x)
                 = Add(evaluate(arg.r, x), WeightedSumAt(arg.f_polys, arg.d_vals, x))

\* two polynomials of three coefficients were folded into an r that they changed
C18_Witness ==
    /\ pc = "z_done"
    /\ op = "compute_z"
    /\ Len(arg.f_polys) = 2
    /\ Len(arg.d_vals) = 2
    /\ Len(arg.r) = 3
    /\ Len(arg.f_polys[1]) = 3
    /\ arg.d_vals[1] # 0
    /\ arg.d_vals[2] # 0
    /\ recon # arg.r

\* C19: round trip of the fused response.  For every x,
\* compute_r_eval(z(x), [f_j(x)]_j, d_vals) returns r(x), where z is the
\* result of compute_z applied to r with the same f polynomials and d_vals.
C19_RoundTrip ==
    (pc = "fn_done" /\ op = "compute_r_eval") =>
        /\ arg.z = compute_z(arg.r, arg.f_polys, arg.d_vals)
        /\ recon = <<evaluate(arg.r, arg.x)>>

\* r(3) was recovered from a z that differs from r at 3
C19_Witness ==
    /\ pc = "fn_done"
    /\ op = "compute_r_eval"
    /\ arg.x = 3
    /\ Len(arg.f_polys) = 2
    /\ Len(arg.r) >= 2
    /\ evaluate(arg.z, 3) # evaluate(arg.r, 3)
    /\ recon = <<evaluate(arg.r, 3)>>

\* C20: generate_shares_batched(secrets) with a power table from
\* gen_powers(n, t) returns; each sampled polynomial f_j has t + 1
\* coefficients and constant term secrets[j]; and evals[i][j] = f_j(i + 1) for
\* every i in 0..n-1 and j in 0..k-1, f_j evaluated over all its coefficients.
C20_SharesBatched ==
    (pc = "fn_done" /\ op = "generate_shares_batched") =>
        /\ IsOk(ret)
        /\ Len(recon[1]) = Len(arg.secrets)
        /\ \A j \in 1..Len(recon[1]) :
              Len(recon[1][j]) = arg.tt + 1 /\ recon[1][j][1] = arg.secrets[j]
        /\ Len(recon[2]) = arg.nn
        /\ \A i \in 1..Len(recon[2]) :
              /\ Len(recon[2][i]) = Len(arg.secrets)
              /\ \A j \in 1..Len(recon[2][i]) : recon[2][i][j] = evaluate(recon[1][j], i)

\* C21: power table shape and content.  gen_powers(n, t) yields, for each
\* i in 1..n, the sequence [1, i, i^2, ..., i^t] of exactly t + 1 entries:
\* the entry for party i and exponent j is i^j in the scalar field, for all
\* j in 0..t.
C21_PowerTable ==
    (pc = "fn_done" /\ op = "gen_powers") =>
        /\ Len(recon) = arg.nn
        /\ \A i \in 1..Len(recon) :
              /\ Len(recon[i]) = arg.tt + 1
              /\ \A j \in 0..(Len(recon[i]) - 1) : recon[i][j + 1] = Pow(ScalarFrom(i), j)

\* C22: precomputed evaluation equals direct evaluation.  For every
\* polynomial f of degree t and every range 1 <= from <= to <= n,
\* f.evaluate_range_precomp(gen_powers(n, t), from, to) returns, without any
\* out-of-bounds access, the vector f.evaluate_range(from, to): the entry
\* for x is f.evaluate(x).
C22_PrecompEqualsDirect ==
    (pc = "fn_done" /\ op = "evaluate_range_precomp") =>
        /\ IsOk(ret)
        /\ recon = evaluate_range(arg.f, arg.from, arg.to)
        /\ \A m \in 1..Len(recon) : recon[m] = evaluate(arg.f, arg.from + m - 1)

\* C23: encrypted-share round trip.  generate_encrypted_shares_batched
\* returns enc_shares[i][j] = f_j(i + 1) * pub_keys[i], compressed; each
\* share decrypted by decrypt_share with the matching (invertible) private
\* key, reconstruct_secrets_exponent over any t + 1 of the decrypted shares
\* returns secrets[j] * G for every j.
C23_EncryptedRoundTrip ==
    /\ (op = "generate_encrypted_shares_batched" /\ pc \in {"enc_done", "fn_done"}) =>
          /\ IsOk(ret)
          /\ Len(arg.enc) = arg.nn
          /\ \A i \in 1..Len(arg.enc) : \A j \in 1..Len(arg.enc[i]) :
                arg.enc[i][j] = compress(PointMul(evaluate(arg.f_polys[j], i),
                                                  mul_base(arg.private_keys[i])))
    /\ (op = "reconstruct_secrets_exponent" /\ pc = "fn_done"
           /\ \A i \in 1..Len(arg.private_keys) : arg.private_keys[i] # 0) =>
          /\ IsOk(ret)
          /\ recon = [j \in 1..Len(arg.secrets) |-> mul_base(arg.secrets[j])]

\* C24: public verifiability of Pi_S, completeness.  With an honest dealer
\* (nothing replaced on the way), deal_secret returns the encrypted shares
\* and the proof (d, z), and verify_encrypted_shares returns Ok(true) for
\* every verifier holding the n public keys, the n encrypted shares and the
\* proof; the verdict is the same whatever the verifier's private key and index.
C24_PublicVerifiability ==
    /\ op = "deal_secret" => IsOk(ret)
    /\ (op = "verify_encrypted_shares" /\ tamper.kind = "none") =>
          /\ IsOkTrue(ret)
          /\ \A sk \in Scalars : \A i \in 1..n :
                pi_s_verify_encrypted_shares(
                    [parties[Len(vsRet)] EXCEPT !.private_key = sk, !.index = i],
                    <<>>, ZeroBuf, x_pows).ret = ret

C26_DecryptionProofsComplete ==
    /\ op = "verify_decrypted_shares" =>
          /\ IsOkTrue(ret)
          /\ p.validated_shares = [i \in 1..n |-> i - 1]
    /\ (op = "reconstruct_secret" /\ \A i \in 1..n : parties[i].private_key # 0) =>
          /\ IsOk(ret)
          /\ recon[Len(recon)] = PointMul(secrets[1], G)

\* the last of 4 parties reconstructed, from a set that does not begin with
\* the first party, after every party had decrypted and proved
C26_Witness ==
    /\ op = "reconstruct_secret"
    /\ pc = "s_done"
    /\ n = 4
    /\ \A i \in 1..n : parties[i].private_key # 0 /\ parties[i].share_proof.some
    /\ Len(recon) = 4
    /\ \A i \in 1..4 : recon[i] = PointMul(secrets[1], G)
    /\ secrets[1] # 0
    /\ p.qualified_set.v[1][1] # 1
    /\ p.index = 4
    /\ Len(p.validated_shares) = 4

\* C27: completeness of verify_shares in B_Pedersen.  After an honest deal,
\* for every valid (n, t) and every k, verify_shares of every party returns
\* Ok(true) and records the indices of all n parties' shares.
C27_PedersenVerifyShares ==
    (arg # <<>> /\ arg.proto = "b_pedersen" /\ op = "verify_shares") =>
        /\ IsOkTrue(ret)
        /\ \A i \in 1..n : parties[i].shares.some =>
              parties[i].validated_shares = [m \in 1..n |-> m - 1]

\* C28: completeness of B_Feldman.  After an honest deal, for every valid
\* (n, t), those where a power i^t does not fit the machine integer
\* included, verify_share and verify_shares of every party return Ok(true),
\* verify_shares recording all n indices: sum_j f_j(i) * g_j equals
\* sum_t' i^t' * C_t' with the powers taken in the scalar field.
C28_FeldmanComplete ==
    (arg # <<>> /\ arg.proto = "b_feldman") =>
        /\ op = "verify_share" => IsOkTrue(ret)
        /\ op = "verify_shares" =>
              /\ IsOkTrue(ret)
              /\ \A i \in 1..n : parties[i].shares.some =>
                    parties[i].validated_shares = [m \in 1..n |-> m - 1]

\* C29: parallel determinism of verify_shares (B_Pi_LA and B_Pi_P_Plus).  For
\* a fixed proof and fixed shares, however the n per-share checks are cut into
\* jobs, spread over the threads and interleaved, and in whatever order they
\* end, verify_shares leaves the party, the shared hasher and the buffer
\* exactly as the sequential run does and returns the same boolean;
\* validated_shares is in ascending order of index.
C29_ParallelDeterminism ==
    (op = "verify_shares" /\ job.phase = "joined") =>
        /\ ret = sequential_verify_shares(job).ret
        /\ p = sequential_verify_shares(job).self
        /\ hasher = sequential_verify_shares(job).hasher
        /\ buf = sequential_verify_shares(job).buf
        /\ \A a, b \in 1..Len(p.validated_shares) :
              a < b => p.validated_shares[a] < p.validated_shares[b]

\* four checks that ended in the order 3, 1, 0, 2, the one of the altered
\* share 1 failing: validated_shares is 0, 2, 3 and the verdict Ok(true)
C29_Witness ==
    /\ op = "verify_shares"
    /\ job.phase = "joined"
    /\ job.proto = "b_pi_la"
    /\ n = 4
    /\ tamper.kind = "share"
    /\ tamper.i = 1
    /\ job.finished = <<3, 1, 0, 2>>
    /\ job.out = <<"Some", "None", "Some", "Some">>
    /\ p.validated_shares = <<0, 2, 3>>
    /\ IsOkTrue(ret)

\* C30: Dealer::new of B_Pi_LA.  When the number of public keys supplied
\* differs from n the result is the error CountMismatch(n, number supplied);
\* when the number is n and some key is not the encoding of a point the
\* result is the decompression error; otherwise the result is a dealer with
\* threshold t that holds exactly the n keys, decompressed, in the order
\* they were supplied.
C30_DealerNew ==
    (op = "dealer_new" /\ arg.fn = "dealer_new") =>
        /\ Len(arg.public_keys) # arg.nn =>
              ret = Err("CountMismatch", arg.nn, Len(arg.public_keys), 0)
        /\ (Len(arg.public_keys) = arg.nn
              /\ \E i \in 1..Len(arg.public_keys) : ~decompress(arg.public_keys[i]).some) =>
              IsErr(ret, "PointDecompressionError")
        /\ (Len(arg.public_keys) = arg.nn
              /\ \A i \in 1..Len(arg.public_keys) : decompress(arg.public_keys[i]).some) =>
              /\ IsOk(ret)
              /\ recon.t = arg.tt
              /\ Len(recon.public_keys) = arg.nn
              /\ \A i \in 1..arg.nn : recon.public_keys[i] = decompress(arg.public_keys[i]).v

\* four valid keys that are not in ascending order: the dealer holds them as
\* supplied
C30_Witness ==
    /\ op = "dealer_new"
    /\ arg.fn = "dealer_new"
    /\ arg.nn = 4
    /\ Len(arg.public_keys) = 4
    /\ IsOk(ret)
    /\ recon.public_keys = [i \in 1..4 |-> arg.public_keys[i].id]
    /\ recon.public_keys[1].dl > recon.public_keys[2].dl
    /\ \A i, j \in 1..4 : i # j => recon.public_keys[i] # recon.public_keys[j]

\* C31: for every k >= 1, compute_d_powers(k, d) has exactly k entries and
\* entry j (counted from 0) is d^(j+1)
C31_DPowers ==
    (op = "compute_d_powers" /\ arg.fn = "compute_d_powers" /\ arg.nn >= 1) =>
        /\ Len(recon) = arg.nn
        /\ \A j \in 0..(arg.nn - 1) : recon[j + 1] = Pow(arg.x, j + 1)

C31_Witness ==
    /\ op = "compute_d_powers" /\ arg.fn = "compute_d_powers"
    /\ arg.nn = MaxK + 3 /\ arg.x = 3
    /\ recon = <<3, 2, 6, 4, 5>>

\* C32: a deal by a dealer that was constructed runs to its end: pi_p's
\* deal_secret, given the dealer of Dealer::new, the n keys of the parties and
\* a secret, returns n shares, n blinding values, n commitments and z, and
\* does not panic, whatever challenge d the commitments hash to
C32_DealFailureFree ==
    (op = "pi_p_deal_secret" /\ arg.fn = "pi_p_deal_secret" /\ IsOk(recon.dealer_new)) =>
        /\ IsOk(ret)
        /\ Len(recon.shares) = arg.nn
        /\ Len(recon.g) = arg.nn
        /\ Len(recon.cvals) = arg.nn
        /\ Len(recon.z) = arg.tt + 1

\* the check of verify_share and verify_shares on one share, for the party
\* numbered index (1-based), against a stored proof
share_verifies(proof, index, share) ==
    check_bit(proof.cvals, index - 1,
              hash_share(share,
                         compute_r_eval(evaluate(proof.z, index), share,
                                        compute_d_powers_from_hash_commitments(
                                            <<>>, ZeroBuf, proof.cvals, Len(share)).d_vals)))

\* C33: whenever a party's qualified_set is populated, the party holds a
\* dealer proof and every (index, share) of the set passes the verification
\* check against that proof, whatever was ingested and verified before
C33_QualifiedSetValid ==
    (pc = "free" /\ p.qualified_set.some) =>
        /\ p.dealer_proof.some
        /\ \A m \in 1..Len(p.qualified_set.v) :
              share_verifies(p.dealer_proof, p.qualified_set.v[m].index,
                             p.qualified_set.v[m].share)

\* C34: the stages of a party come in order: select_qualified_set returns Ok
\* only when verify_shares has recorded more than t validated shares,
\* reconstruct_secrets returns Ok only when a qualified set was selected, and
\* verify_share and verify_shares return Ok only when the share(s), the
\* public keys and the dealer proof have been ingested
C34_StageOrdering ==
    (pc = "free" /\ IsOk(ret)) =>
        /\ op = "party_select_qualified_set" =>
              p.shares.some /\ Len(p.validated_shares) > p.t
        /\ op = "party_reconstruct_secrets" => p.qualified_set.some
        /\ op = "verify_share" =>
              p.share.some /\ p.dealer_proof.some /\ p.public_keys.some
        /\ op = "verify_shares" =>
              p.shares.some /\ p.dealer_proof.some /\ p.public_keys.some

\* the party whose verify_shares has just returned in a session of b_feldman
\* or b_pedersen
JustVerified == IF pc = "panic" THEN cur ELSE IF pc = "c_done" THEN n ELSE cur - 1

\* verify_share as party i runs it on the share at position i - 1 of the
\* shares the party v holds, with the proof v holds
verify_share_of(v, i) ==
    IF arg.proto = "b_pedersen"
    THEN b_pedersen_verify_share([parties[i] EXCEPT !.share = SomeSeq(v.shares.v[i]),
                                                   !.dealer_proof = v.dealer_proof],
                                 arg.overflow_checks).ret
    ELSE b_feldman_verify_share([parties[i] EXCEPT !.share = SomeSeq(v.shares.v[i]),
                                                  !.dealer_proof = v.dealer_proof],
                                arg.overflow_checks).ret

\* C35: verify_shares agrees with verify_share.  When verify_shares of a party
\* returns, index i - 1 is in its validated_shares if and only if verify_share,
\* run by party i on shares[i - 1] and the same proof, returns Ok(true)
C35_SharesAgreeWithShare ==
    (arg # <<>> /\ arg.proto \in Protocols /\ op = "verify_shares" /\ IsOk(ret)) =>
        \A i \in 1..n :
            (\E m \in 1..Len(parties[JustVerified].validated_shares) :
                 parties[JustVerified].validated_shares[m] = i - 1)
                <=> IsOkTrue(verify_share_of(parties[JustVerified], i))

\* C36: the single-secret path is the batched path with k = 1.  From the same
\* f and r, pi_la's deal_secret and b_pi_la's deal give the same shares,
\* commitments and z; b_pi_la's verify_share accepts every share of pi_la's
\* deal; and the two verify_shares return the same verdict and validate the
\* same parties, whichever share was altered
C36_SingleIsBatched ==
    (op = "single_vs_batched" /\ arg.fn = "single_vs_batched") =>
        /\ recon.batched.shares = [i \in 1..arg.nn |-> <<recon.single.shares[i]>>]
        /\ recon.batched.cvals = recon.single.cvals
        /\ recon.batched.z = recon.single.z
        /\ \A i \in 1..arg.nn : IsOkTrue(recon.b_share[i])
        /\ recon.la_shares.ret = recon.b_shares.ret
        /\ recon.la_shares.self.validated_shares = recon.b_shares.self.validated_shares

\* C37: the commitment side of b_pedersen's verify_share, folded from cvals[0]
\* over the terms i^t' * c_t' of t' >= 1, is the sum over every t' >= 0 that
\* b_feldman's verify_share takes, for every index i >= 1 and every vector of
\* t + 1 commitments; the one panics on a power exactly when the other does
C37_CommitmentSideIsFullSum ==
    (op = "commitment_side" /\ arg.fn = "commitment_side") =>
        /\ recon.b_pedersen.panic = recon.b_feldman.panic
        /\ recon.b_pedersen.v = recon.b_feldman.v

C37_Witness ==
    /\ op = "commitment_side" /\ arg.fn = "commitment_side"
    /\ arg.nn = 2 /\ arg.gens = <<Point(3), Point(1), Point(2)>>
    /\ ~recon.b_pedersen.panic
    /\ recon.b_pedersen.v = Point(6)

\* C38: verify_shares replaces validated_shares, it does not append to it:
\* whatever calls a party has had, its validated_shares is strictly ascending
\* (so free of duplicates) with every index in [0, n), and once verify_shares
\* has returned, a second call on the same proof and shares returns the same
\* boolean and leaves validated_shares as it is
C38_VerifySharesReplaces ==
    pc \in {"free", "panic"} =>
        /\ \A a \in 1..Len(p.validated_shares) : p.validated_shares[a] \in 0..(p.n - 1)
        /\ \A a, b \in 1..Len(p.validated_shares) :
               a < b => p.validated_shares[a] < p.validated_shares[b]
        /\ (op = "verify_shares" /\ IsOk(ret)) =>
               /\ verify_shares(p, hasher, buf).ret = ret
               /\ verify_shares(p, hasher, buf).self.validated_shares = p.validated_shares

C38_Witness ==
    /\ pc = "free" /\ op = "verify_shares" /\ IsOkTrue(ret)
    /\ n = 4 /\ tamper.kind = "share" /\ tamper.i = 1
    /\ p.validated_shares = <<0, 2, 3>>

\* C39: coef_at(i) is Some(coefficient i) for every i up to the degree, the
\* highest coefficient included, None for every i past the degree, and does
\* not panic, on a polynomial with no coefficients either; in common's
\* Polynomial and in pi_p's
C39_CoefAt ==
    (op = "coef_at" /\ arg.fn = "coef_at") =>
        \A got \in {recon.common, recon.pi_p} :
            /\ ~got.panic
            /\ got.some = (arg.x < Len(arg.f))
            /\ got.some => got.v = arg.f[arg.x + 1]

====
